---- MODULE Spec2Model ----
(***************************************************************************)
(* A model of gcode-parser.c: the tokenizer parse_next_pair, the command   *)
(* handlers and the top-level loop gcodep_parse_line, over a line buffer   *)
(* of characters and IEEE-754 binary32 arithmetic.                         *)
(***************************************************************************)
EXTENDS Integers, Sequences, FiniteSets, TLC

(***************************************************************************)
(* binary32 values.  A float is held as its bit pattern read as a          *)
(* sign-magnitude integer: 0 is zero, a positive normal number is          *)
(* exponent * 2^23 + fraction, a negative one the negation of that.  The   *)
(* two zeros are one value (they compare equal in C); the inputs are       *)
(* bounded so that no operation leaves the normal range.                   *)
(***************************************************************************)
\* F applied to the value of v, with v evaluated once (a strict let).
Let(v, F(_)) == CHOOSE r \in {F(e) : e \in {v}} : TRUE

Abs(x) == IF x < 0 THEN -x ELSE x

Mant(c) == 2^23 + (c % 2^23)

Expo(c) == c \div 2^23

Pack(m, e) == e * 2^23 + (m - 2^23)

\* The number of bits of n >= 0.
BitLen(n) == CHOOSE k \in 0..31 : 2^k > n /\ (k = 0 \/ 2^(k - 1) <= n)

\* The binary32 nearest to (M + s) * 2^(E - 150), ties to even, where M > 0
\* and 0 <= s < 1 with s > 0 exactly when sticky.  Needs M >= 2^24 when sticky.
RoundF(M, E, sticky) ==
  Let(<<M, BitLen(M) - 24>>, LAMBDA Mk :
    LET m == Mk[1]
        k == Mk[2]
    IN
    IF k <= 0 THEN Pack(m * 2^(-k), E + k)
    ELSE LET q    == m \div 2^k
             r    == m % 2^k
             half == 2^(k - 1)
             up   == \/ r > half
                     \/ r = half /\ sticky
                     \/ r = half /\ ~sticky /\ q % 2 = 1
             q1   == IF up THEN q + 1 ELSE q
         IN  IF q1 = 2^24 THEN Pack(2^23, E + k + 1) ELSE Pack(q1, E + k))

\* a + b for floats of the same sign (magnitudes given, Expo(a) >= Expo(b)).
AddMag(a, b) ==
  LET d  == IF Expo(a) - Expo(b) > 30 THEN 30 ELSE Expo(a) - Expo(b)
      A  == Mant(a) * 32
      B  == (Mant(b) * 32) \div 2^d
      st == (Mant(b) * 32) % 2^d # 0
  IN  RoundF(A + B, Expo(a) - 5, st)

\* a - b for magnitudes a > b > 0.
SubMag(a, b) ==
  LET d  == IF Expo(a) - Expo(b) > 30 THEN 30 ELSE Expo(a) - Expo(b)
      A  == Mant(a) * 32
      B  == (Mant(b) * 32) \div 2^d
      st == (Mant(b) * 32) % 2^d # 0
  IN  RoundF(A - B - (IF st THEN 1 ELSE 0), Expo(a) - 5, st)

\* The float sum, as the C operator + on two floats (round to nearest even).
fadd(a, b) ==
  IF a = 0 THEN b
  ELSE IF b = 0 THEN a
  ELSE IF (a > 0) = (b > 0)
       THEN LET hi == IF Abs(a) >= Abs(b) THEN Abs(a) ELSE Abs(b)
                lo == IF Abs(a) >= Abs(b) THEN Abs(b) ELSE Abs(a)
                s  == AddMag(hi, lo)
            IN  IF a > 0 THEN s ELSE -s
  ELSE IF Abs(a) = Abs(b) THEN 0
  ELSE IF Abs(a) > Abs(b)
       THEN (IF a > 0 THEN SubMag(Abs(a), Abs(b)) ELSE -SubMag(Abs(a), Abs(b)))
       ELSE (IF b > 0 THEN SubMag(Abs(b), Abs(a)) ELSE -SubMag(Abs(b), Abs(a)))

\* The float difference, as the C operator - on two floats.
fsub(a, b) == fadd(a, -b)

\* The product of two magnitudes: the exact 48-bit product in 12-bit limbs,
\* then one rounding.
MulMag(a, b) ==
  LET ah  == Mant(a) \div 4096
      al  == Mant(a) % 4096
      bh  == Mant(b) \div 4096
      bl  == Mant(b) % 4096
  IN  Let(ah * bl + al * bh, LAMBDA mid :
      Let((mid % 4096) * 4096 + al * bl, LAMBDA low :
        LET H == ah * bh + (mid \div 4096) + (low \div 2^24)
            L == low % 2^24
        IN  RoundF(H * 16 + (L \div 2^20), Expo(a) + Expo(b) - 130,
                   L % 2^20 # 0)))

\* The float product, as the C operator * on two floats.
fmul(a, b) ==
  IF a = 0 \/ b = 0 THEN 0
  ELSE IF (a > 0) = (b > 0) THEN MulMag(Abs(a), Abs(b))
  ELSE -MulMag(Abs(a), Abs(b))

RECURSIVE DivBits(_, _, _, _)
\* Binary long division: quotient bits of r / D appended to q until q has
\* 26 bits; the result is <<quotient, number of bits appended, remainder>>.
DivBits(q, r, D, n) ==
  IF q >= 2^25 THEN <<q, n, r>>
  ELSE Let(<<2 * q + (IF 2 * r >= D THEN 1 ELSE 0),
             IF 2 * r >= D THEN 2 * r - D ELSE 2 * r, n + 1>>,
           LAMBDA t : DivBits(t[1], t[2], D, t[3]))

\* The binary32 nearest to N / D (N, D > 0): a correctly rounded conversion.
RatToF(N, D) ==
  IF N = 0 THEN 0
  ELSE IF N % D = 0 THEN RoundF(N \div D, 150, FALSE)
  ELSE Let(DivBits(N \div D, N % D, D, 0),
           LAMBDA t : RoundF(t[1], 150 - t[2], t[3] # 0))


(***************************************************************************)
(* Characters and the line buffer.  A line is a sequence of one-character  *)
(* strings; the terminating '\0' sits at index Len(buf) + 1.  A cursor     *)
(* (a C character pointer) is an index into the buffer, NULL is 0.         *)
(***************************************************************************)
NUL == "NUL"

NULL == 0

Lowers == <<"a","b","c","d","e","f","g","h","i","j","k","l","m",
           "n","o","p","q","r","s","t","u","v","w","x","y","z">>

Uppers == <<"A","B","C","D","E","F","G","H","I","J","K","L","M",
           "N","O","P","Q","R","S","T","U","V","W","X","Y","Z">>

Digits == <<"0","1","2","3","4","5","6","7","8","9">>

\* The index of c in sequence s, 0 when absent.
IndexOf(s, c) ==
  IF \E i \in 1..Len(s) : s[i] = c
  THEN CHOOSE i \in 1..Len(s) : s[i] = c
  ELSE 0

isspace(c) == c \in {" ", "\t", "\n", "\r"}

toupper(c) == IF IndexOf(Lowers, c) # 0 THEN Uppers[IndexOf(Lowers, c)] ELSE c

isdigit(c) == IndexOf(Digits, c) # 0

DigitVal(c) == IndexOf(Digits, c) - 1

isxdigit(c) == isdigit(c) \/ toupper(c) \in {"A","B","C","D","E","F"}

XDigitVal(c) == IF isdigit(c) THEN DigitVal(c) ELSE 9 + IndexOf(Uppers, toupper(c))

\* *(buf + i - 1): the character under cursor i.  Index Len(buf) + 1 is the
\* terminator; an index beyond it is outside the line, and what is read
\* there is whatever byte follows the line in memory (beyond).
CharAt(buf, i, beyond) ==
  IF i <= Len(buf) THEN buf[i]
  ELSE IF i = Len(buf) + 1 THEN NUL
  ELSE beyond

RECURSIVE SkipSpace(_, _)
\* while (*line && isspace(*line)) line++;
SkipSpace(buf, i) ==
  IF i <= Len(buf) /\ isspace(buf[i]) THEN SkipSpace(buf, i + 1) ELSE i

RECURSIVE ScanDigits(_, _, _, _)
\* Decimal digits from cursor i: <<value accumulated, cursor after, digits read>>.
ScanDigits(buf, i, acc, n) ==
  IF i <= Len(buf) /\ isdigit(buf[i])
  THEN ScanDigits(buf, i + 1, acc * 10 + DigitVal(buf[i]), n + 1)
  ELSE <<acc, i, n>>

RECURSIVE ScanXDigits(_, _, _, _)
\* Hexadecimal digits from cursor i, as ScanDigits.
ScanXDigits(buf, i, acc, n) ==
  IF i <= Len(buf) /\ isxdigit(buf[i])
  THEN ScanXDigits(buf, i + 1, acc * 16 + XDigitVal(buf[i]), n + 1)
  ELSE <<acc, i, n>>

RECURSIVE Pow10(_)
Pow10(n) == IF n <= 0 THEN 1 ELSE 10 * Pow10(n - 1)

\* strtof(buf + i - 1, &endptr): the longest prefix that is a number (sign,
\* then 0x and hexadecimal digits with an optional fraction and an optional
\* binary exponent, or decimal digits with an optional fraction and an
\* optional exponent), converted with correct rounding.
\* endptr = i when there is no number.  A NUL stored in the buffer ends the
\* text like the terminator does.
strtof(buf, i) ==
  LET c(j) == IF j <= Len(buf) THEN buf[j] ELSE NUL IN
  Let(SkipSpace(buf, i), LAMBDA s :
    LET neg    == c(s) = "-"
        j      == IF c(s) \in {"-", "+"} THEN s + 1 ELSE s
        sgn(v) == IF neg THEN -v ELSE v
        hex    == /\ c(j) = "0" /\ c(j + 1) \in {"x", "X"}
                  /\ \/ isxdigit(c(j + 2))
                     \/ c(j + 2) = "." /\ isxdigit(c(j + 3))
    IN
    IF hex
    THEN
    Let(ScanXDigits(buf, j + 2, 0, 0), LAMBDA xi :
    Let(IF c(xi[2]) = "." THEN ScanXDigits(buf, xi[2] + 1, xi[1], 0)
                          ELSE <<xi[1], xi[2], 0>>, LAMBDA xf :
      LET p0   == xf[2]
          pneg == c(p0 + 1) = "-"
          p1   == IF c(p0 + 1) \in {"-", "+"} THEN p0 + 2 ELSE p0 + 1
      IN
      Let(IF c(p0) \in {"p", "P"} THEN ScanDigits(buf, p1, 0, 0) ELSE <<0, p0, 0>>,
          LAMBDA pp :
        LET hasP == pp[3] > 0
            x    == IF hasP THEN (IF pneg THEN -pp[1] ELSE pp[1]) ELSE 0
            k    == 4 * xf[3] - x
        IN  [value  |-> sgn(IF xf[1] = 0 THEN 0
                            ELSE IF k <= 0 THEN RoundF(xf[1], 150 - k, FALSE)
                            ELSE RatToF(xf[1], 2^k)),
             endptr |-> IF hasP THEN pp[2] ELSE p0])))
    ELSE
    Let(ScanDigits(buf, j, 0, 0), LAMBDA ip :
    Let(IF c(ip[2]) = "." THEN ScanDigits(buf, ip[2] + 1, ip[1], 0)
                          ELSE <<ip[1], ip[2], 0>>, LAMBDA fp :
      LET e0   == fp[2]
          eneg == c(e0 + 1) = "-"
          e1   == IF c(e0 + 1) \in {"-", "+"} THEN e0 + 2 ELSE e0 + 1
      IN
      IF ip[3] + fp[3] = 0 THEN [value |-> 0, endptr |-> i]
      ELSE
      Let(IF c(e0) \in {"e", "E"} THEN ScanDigits(buf, e1, 0, 0) ELSE <<0, e0, 0>>,
          LAMBDA ep :
        LET hasE == ep[3] > 0
            x    == IF hasE THEN (IF eneg THEN -ep[1] ELSE ep[1]) ELSE 0
            k    == fp[3] - x
        IN  [value  |-> sgn(RatToF(fp[1] * Pow10(-k), Pow10(k))),
             endptr |-> IF hasE THEN ep[2] ELSE e0]))))

\* A plausible slip: a letter that ends the line is given the value 0
\* instead of being an error.
expected_value_as_zero(buf, letter, line) ==
  [line |-> line, letter |-> letter, value |-> 0,
   buf |-> buf, rd |-> FALSE, wr |-> FALSE]

\* if (*line == '\0') { "Error: expected value after ..."; return NULL; }
\* with line the cursor after the letter.
expected_value(buf, letter, line) ==
  [line |-> NULL, letter |-> letter, value |-> 0,
   buf |-> buf, rd |-> FALSE, wr |-> FALSE]

\* A plausible slip: the workaround left out, strtof given the text as it is.
repair_x_never(buf, line, beyond) == FALSE

\* (*(line+1) == 'x' || *(line+1) == 'X'): whether repair_x is set, with
\* line at the first character of the value.
repair_x(buf, line, beyond) == CharAt(buf, line + 1, beyond) \in {"x", "X"}

\* Parse next letter/number pair: [line |-> the remaining line or NULL,
\* letter, value, buf |-> the buffer as the call leaves it, rd / wr |->
\* whether a byte beyond the terminator was read / written].
parse_next_pair(buf, line, beyond) ==
  LET fail(b, r, w) == [line |-> NULL, letter |-> NUL, value |-> 0,
                        buf |-> b, rd |-> r, wr |-> w]
  IN
  IF line = NULL THEN fail(buf, FALSE, FALSE)
  ELSE
  Let(SkipSpace(buf, line), LAMBDA i0 :
    IF CharAt(buf, i0, beyond) \in {NUL, ";", "%"} THEN fail(buf, FALSE, FALSE)
    ELSE IF CharAt(buf, i0 + 1, beyond) = NUL
         THEN expected_value(buf, toupper(CharAt(buf, i0, beyond)), i0 + 1)
    ELSE IF toupper(CharAt(buf, i0, beyond)) = "*" THEN fail(buf, FALSE, FALSE)
    ELSE
    Let(SkipSpace(buf, i0 + 1), LAMBDA i2 :
      LET letter == toupper(CharAt(buf, i0, beyond))
          oob    == i2 + 1 > Len(buf) + 1
          repair == repair_x(buf, i2, beyond)
          cut    == IF repair /\ ~oob THEN [buf EXCEPT ![i2 + 1] = NUL] ELSE buf
          back   == IF repair /\ ~oob THEN [buf EXCEPT ![i2 + 1] = "X"] ELSE buf
      IN
      Let(strtof(cut, i2), LAMBDA num :
        IF num.endptr = i2 THEN fail(back, oob, oob /\ repair)
        ELSE [line |-> SkipSpace(back, num.endptr), letter |-> letter,
              value |-> num.value, buf |-> back, rd |-> oob, wr |-> oob /\ repair])))

(***************************************************************************)
(* struct GCodeParser and the action sink.                                 *)
(***************************************************************************)
\* The axes in the order of their indices AXIS_X .. AXIS_C.
AxisLetters == <<"X","Y","Z","E","A","B","C">>

GCODE_NUM_AXES == Len(AxisLetters)

Axes == 0..(GCODE_NUM_AXES - 1)

\* AXIS_X, AXIS_Y, ...: the index of the axis a letter names.
AXIS(letter) == IndexOf(AxisLetters, letter) - 1

IsAxis(letter) == IndexOf(AxisLetters, letter) # 0

RECURSIVE OrBits(_)
\* (1 << s[1]) | (1 << s[2]) | ... for a sequence of distinct bit numbers.
OrBits(s) == IF s = <<>> THEN 0 ELSE 2^Head(s) + OrBits(Tail(s))

kAllAxesBitmap == OrBits([i \in 1..GCODE_NUM_AXES |-> i - 1])

\* flags | (1 << bit)
BitOr(flags, bit) == IF (flags \div 2^bit) % 2 = 1 THEN flags ELSE flags + 2^bit

\* A plausible slip: the inch taken as 2.54 (centimetres).
F_2_54 == RatToF(254, 100)

\* The float literals 1.0f, 25.4f and 0 as the compiler converts them.
F_1_0 == RatToF(1, 1)

F_25_4 == RatToF(254, 10)

\* The value of a float within the range of int, truncated toward zero.
float_to_int(c) ==
  LET e == Expo(Abs(c)) - 150
      n == IF e >= 0 THEN Mant(Abs(c)) * 2^e
           ELSE IF e < -24 THEN 0
           ELSE Mant(Abs(c)) \div 2^(-e)
  IN  IF c = 0 THEN 0 ELSE IF c < 0 THEN -n ELSE n

\* INT_MIN and INT_MAX of a 32-bit int.
INT_MAX == 2^30 + (2^30 - 1)

INT_MIN == -INT_MAX - 1

\* Whether the truncated value of float c is within the range of int.
InIntRange(c) == c = 0 \/ Expo(Abs(c)) <= 157 \/ c = -(158 * 2^23)

\* The conversion of a float outside the range of int is undefined; what
\* builds yield is INT_MIN whatever the value ("indefinite", x86) or the
\* nearest int ("saturated", ARM).
ConvResults == {"indefinite", "saturated"}

\* A plausible slip: the code rounded to the nearest integer.
int_cast_rounds(c, conv) ==
  IF c >= 0 THEN float_to_int(fadd(c, RatToF(1, 2)))
  ELSE float_to_int(fsub(c, RatToF(1, 2)))

\* (int) value: truncation toward zero; outside the range of int, what the
\* build yields.
int_cast(c, conv) ==
  IF c = -(158 * 2^23) THEN INT_MIN
  ELSE IF InIntRange(c) THEN float_to_int(c)
  ELSE IF conv = "saturated" /\ c > 0 THEN INT_MAX
  ELSE INT_MIN

Slots == {"go_home", "set_feedrate", "set_fanspeed", "set_temperature",
          "wait_temperature", "disable_motors", "coordinated_move",
          "rapid_move", "unprocessed"}

\* The stand-in of a callback the collaborator did not supply.
Dummy(slot) ==
  CASE slot = "go_home"          -> <<"dummy", "dummy_go_home">>
    [] slot = "set_feedrate"     -> <<"dummy", "dummy_set_feedrate">>
    [] slot = "set_fanspeed"     -> <<"dummy", "dummy_set_fanspeed">>
    [] slot = "set_temperature"  -> <<"dummy", "dummy_set_temperature">>
    [] slot = "wait_temperature" -> <<"dummy", "dummy_wait_temperature">>
    [] slot = "disable_motors"   -> <<"dummy", "dummy_disable_motors">>
    [] slot = "coordinated_move" -> <<"dummy", "dummy_move">>
    [] slot = "unprocessed"      -> <<"dummy", "dummy_unprocessed">>

\* A plausible slip: the loop stopping short of the E axis.
set_all_axis_but_E(p, value) ==
  [p EXCEPT !.axis_is_absolute =
     [i \in Axes |-> IF i = AXIS("E") THEN @[i] ELSE value]]

set_all_axis_to_absolute(p, value) ==
  [p EXCEPT !.axis_is_absolute = [i \in Axes |-> value]]

\* A plausible slip: rapid_move given a stand-in of its own like the other
\* callbacks.
gcodep_new_rapid_stand_in(supplied) ==
  LET given(slot) == IF slot \in supplied THEN <<"user", slot>>
                     ELSE IF slot = "rapid_move" THEN <<"dummy", "dummy_move">>
                     ELSE Dummy(slot)
  IN  set_all_axis_to_absolute(
        [callbacks         |-> [slot \in Slots |-> given(slot)],
         unit_to_mm_factor |-> F_1_0,
         axis_is_absolute  |-> [i \in Axes |-> FALSE],
         current_feedrate  |-> 0,
         relative_zero     |-> [i \in Axes |-> 0],
         axes_pos          |-> [i \in Axes |-> 0]], TRUE)

\* The parser gcodep_new returns for a collaborator supplying the callbacks
\* in supplied: memset 0, the callbacks copied and the missing ones
\* defaulted, metric units, every axis absolute.
gcodep_new(supplied) ==
  LET given(slot) == IF slot \in supplied THEN <<"user", slot>> ELSE Dummy(slot)
      cbs == [slot \in Slots |->
                IF slot = "rapid_move" /\ slot \notin supplied
                THEN given("coordinated_move")
                ELSE given(slot)]
  IN  set_all_axis_to_absolute(
        [callbacks         |-> cbs,
         unit_to_mm_factor |-> F_1_0,
         axis_is_absolute  |-> [i \in Axes |-> FALSE],
         current_feedrate  |-> 0,
         relative_zero     |-> [i \in Axes |-> 0],
         axes_pos          |-> [i \in Axes |-> 0]], TRUE)

(***************************************************************************)
(* One call of gcodep_parse_line runs over an execution record x:          *)
(*   p       the parser struct                                             *)
(*   buf     the caller's line buffer                                      *)
(*   out     the callbacks invoked so far, in order                        *)
(*   rd, wr  whether a byte beyond the terminator was read / written       *)
(*   beyond  the byte that follows the terminator in memory                *)
(*   cb      what the collaborator's unprocessed callback returns          *)
(*   conv    what the build yields for (int) of an out-of-range float      *)
(***************************************************************************)
\* p->callbacks.<slot>(p->cb_userdata, arg)
Emit(x, slot, arg) ==
  [x EXCEPT !.out = Append(@, [op |-> slot, fn |-> x.p.callbacks[slot], arg |-> arg])]

\* parse_next_pair on the execution's buffer.
Pair(x, line) == parse_next_pair(x.buf, line, x.beyond)

\* The execution after a parse_next_pair that returned t.
Absorb(x, t) == [x EXCEPT !.buf = t.buf, !.rd = @ \/ t.rd, !.wr = @ \/ t.wr]

RECURSIVE home_loop(_, _, _)
\* The while loop of handle_home: <<execution, line, homing_flags>>.
home_loop(x, line, homing_flags) ==
  Let(Pair(x, line), LAMBDA t :
  Let(Absorb(x, t), LAMBDA x1 :
    IF t.line = NULL THEN <<x1, line, homing_flags>>
    ELSE IF IsAxis(t.letter)
         THEN Let(BitOr(homing_flags, AXIS(t.letter)), LAMBDA flags :
                home_loop(x1, t.line, flags))
         ELSE <<x1, line, homing_flags>>))

\* A plausible slip: homing that forgets to reset the G92 origin.
handle_home_keeps_origin(x, line) ==
  Let([x EXCEPT !.p.axes_pos = [i \in Axes |-> 0]], LAMBDA x0 :
  Let(home_loop(x0, line, 0), LAMBDA r :
    [x    |-> Emit(r[1], "go_home", IF r[3] # 0 THEN r[3] ELSE kAllAxesBitmap),
     line |-> r[2]]))

\* A plausible slip: the word that ends the axis words consumed with them.
handle_home_consumes_next(x, line) ==
  Let([x EXCEPT !.p.axes_pos = [i \in Axes |-> 0],
                !.p.relative_zero = [i \in Axes |-> 0]], LAMBDA x0 :
  Let(home_loop(x0, line, 0), LAMBDA r :
  Let(Pair(r[1], r[2]), LAMBDA t :
    [x    |-> Emit(r[1], "go_home", IF r[3] # 0 THEN r[3] ELSE kAllAxesBitmap),
     line |-> IF t.line = NULL THEN r[2] ELSE t.line])))

handle_home(x, line) ==
  Let([x EXCEPT !.p.axes_pos = [i \in Axes |-> 0],
                !.p.relative_zero = [i \in Axes |-> 0]], LAMBDA x0 :
  Let(home_loop(x0, line, 0), LAMBDA r :
    [x    |-> Emit(r[1], "go_home", IF r[3] # 0 THEN r[3] ELSE kAllAxesBitmap),
     line |-> r[2]]))

\* A plausible slip: the sign of the offset reversed.
rebase_axis_sign_slip(x, axis, unit_value) ==
  [x EXCEPT !.p.relative_zero[axis] = fadd(x.p.axes_pos[axis], unit_value)]

\* case 'X': p->relative_zero[AXIS_X] = p->axes_pos[AXIS_X] - unit_value;
\* and the like for the other axes.
rebase_axis(x, axis, unit_value) ==
  [x EXCEPT !.p.relative_zero[axis] = fsub(x.p.axes_pos[axis], unit_value)]

RECURSIVE handle_rebase(_, _)
handle_rebase(x, line) ==
  Let(Pair(x, line), LAMBDA t :
  Let(Absorb(x, t), LAMBDA x1 :
    IF t.line = NULL THEN [x |-> x1, line |-> line]
    ELSE IF IsAxis(t.letter)
         THEN Let(fmul(t.value, x1.p.unit_to_mm_factor), LAMBDA unit_value :
              Let(rebase_axis(x1, AXIS(t.letter), unit_value), LAMBDA x2 :
                handle_rebase(x2, t.line)))
         ELSE [x |-> x1, line |-> line]))

\* A plausible slip: the S value scaled to canonical units like an axis value.
set_S_param_unit_scaled(x, slot, line) ==
  Let(Pair(x, line), LAMBDA t :
  Let(Absorb(x, t), LAMBDA x1 :
    IF t.line # NULL /\ t.letter = "S"
    THEN [x |-> Emit(x1, slot, fmul(t.value, x1.p.unit_to_mm_factor)), line |-> t.line]
    ELSE [x |-> x1, line |-> line]))

set_S_param(x, slot, line) ==
  Let(Pair(x, line), LAMBDA t :
  Let(Absorb(x, t), LAMBDA x1 :
    IF t.line # NULL /\ t.letter = "S"
    THEN [x |-> Emit(x1, slot, t.value), line |-> t.line]
    ELSE [x |-> x1, line |-> line]))

\* A plausible slip: the feedrate passed on without comparing it.
move_feedrate_always(x, unit_value) ==
  [Emit(x, "set_feedrate", unit_value) EXCEPT !.p.current_feedrate = unit_value]

\* case 'F' of handle_move.
move_feedrate(x, unit_value) ==
  IF x.p.current_feedrate # unit_value
  THEN [Emit(x, "set_feedrate", unit_value) EXCEPT !.p.current_feedrate = unit_value]
  ELSE x

\* Plausible slips: axis_is_absolute not consulted.
move_axis_always_relative(x, update_axis, unit_value) ==
  [x EXCEPT !.p.axes_pos[update_axis] = fadd(@, unit_value)]

move_axis_always_absolute(x, update_axis, unit_value) ==
  [x EXCEPT !.p.axes_pos[update_axis] =
              fadd(x.p.relative_zero[update_axis], unit_value)]

\* if (update_axis >= 0) { ... } of handle_move.
move_axis(x, update_axis, unit_value) ==
  IF x.p.axis_is_absolute[update_axis]
  THEN [x EXCEPT !.p.axes_pos[update_axis] =
                   fadd(x.p.relative_zero[update_axis], unit_value)]
  ELSE [x EXCEPT !.p.axes_pos[update_axis] = fadd(@, unit_value)]

RECURSIVE move_loop(_, _, _)
\* The while loop of handle_move: <<execution, line, any_change>>.
move_loop(x, line, any_change) ==
  Let(Pair(x, line), LAMBDA t :
  Let(Absorb(x, t), LAMBDA x1 :
    IF t.line = NULL THEN <<x1, line, any_change>>
    ELSE
    Let(fmul(t.value, x1.p.unit_to_mm_factor), LAMBDA unit_value :
      IF t.letter = "F"
      THEN Let(move_feedrate(x1, unit_value), LAMBDA x2 :
             move_loop(x2, t.line, any_change))
      ELSE IF IsAxis(t.letter)
      THEN Let(move_axis(x1, AXIS(t.letter), unit_value), LAMBDA x2 :
             move_loop(x2, t.line, TRUE))
      ELSE <<x1, line, any_change>>)))

\* A plausible slip: the move passed on whether or not an axis was touched.
handle_move_always_emits(x, fun_move, line) ==
  Let(move_loop(x, line, FALSE), LAMBDA r :
    [x    |-> Emit(r[1], fun_move, r[1].p.axes_pos),
     line |-> r[2]])

\* A plausible slip: a move whose words end in a malformed one is dropped,
\* the parser put back as it was before the command.
handle_move_rolls_back(x, fun_move, line) ==
  Let(move_loop(x, line, FALSE), LAMBDA r :
  Let(Pair(r[1], r[2]), LAMBDA t :
    IF t.line = NULL /\ SkipSpace(r[1].buf, r[2]) <= Len(r[1].buf)
    THEN [x |-> x, line |-> r[2]]
    ELSE [x    |-> IF r[3] THEN Emit(r[1], fun_move, r[1].p.axes_pos) ELSE r[1],
          line |-> r[2]]))

\* fun_move is the callback slot the move is routed to.
handle_move(x, fun_move, line) ==
  Let(move_loop(x, line, FALSE), LAMBDA r :
    [x    |-> IF r[3] THEN Emit(r[1], fun_move, r[1].p.axes_pos) ELSE r[1],
     line |-> r[2]])

\* What the collaborator's own unprocessed callback returns: NULL ("none"),
\* the remainder it was given ("rest"), or the remainder less one more
\* character it consumed itself ("skip").
user_unprocessed(x, line) ==
  CASE x.cb = "none" -> NULL
    [] x.cb = "rest" -> line
    [] x.cb = "skip" -> IF line <= Len(x.buf) THEN line + 1 ELSE line

dummy_unprocessed(x, line) == NULL

\* line = p->callbacks.unprocessed(p->cb_userdata, letter, value, line)
\* The text a cursor points at, up to the terminator (<<"NULL">> for NULL).
TextAt(buf, line) == IF line = NULL THEN <<"NULL">> ELSE SubSeq(buf, line, Len(buf))

\* A plausible slip: the loop goes on from its own cursor and drops what the
\* callback returned.
unprocessed_return_dropped(x, letter, value, line) ==
  Let(IF x.p.callbacks["unprocessed"][1] = "user"
      THEN user_unprocessed(x, line)
      ELSE dummy_unprocessed(x, line), LAMBDA ret :
    [x    |-> Emit(x, "unprocessed",
                   [letter |-> letter, value |-> value,
                    remaining |-> TextAt(x.buf, line),
                    returned  |-> TextAt(x.buf, ret)]),
     line |-> line])

\* A plausible slip: the callback handed the text from the word itself (the
\* first cursor the word is read from) instead of the remainder after it,
\* the loop going on from what the callback returns.
unprocessed_from_word(x, letter, value, line) ==
  Let(CHOOSE i \in 1..line :
        /\ Pair(x, i).line = line
        /\ \A j \in 1..(i - 1) : Pair(x, j).line # line, LAMBDA word :
  Let(IF x.p.callbacks["unprocessed"][1] = "user"
      THEN user_unprocessed(x, word)
      ELSE dummy_unprocessed(x, word), LAMBDA ret :
    [x    |-> Emit(x, "unprocessed",
                   [letter |-> letter, value |-> value,
                    remaining |-> TextAt(x.buf, word),
                    returned  |-> TextAt(x.buf, ret)]),
     line |-> ret]))

\* line = p->callbacks.unprocessed(p->cb_userdata, letter, value, line).  The
\* record of the call holds the arguments and the remainder returned.
unprocessed(x, letter, value, line) ==
  Let(IF x.p.callbacks["unprocessed"][1] = "user"
      THEN user_unprocessed(x, line)
      ELSE dummy_unprocessed(x, line), LAMBDA ret :
    [x    |-> Emit(x, "unprocessed",
                   [letter |-> letter, value |-> value,
                    remaining |-> TextAt(x.buf, line),
                    returned  |-> TextAt(x.buf, ret)]),
     line |-> ret])

\* The body of the top-level loop for the word (letter, value); line is
\* what parse_next_pair returned.
dispatch(x, letter, value, line) ==
  LET same == [x |-> x, line |-> line] IN
  Let(int_cast(value, x.conv), LAMBDA code :
  IF letter = "G" THEN
    CASE code = 0  -> handle_move(x, "rapid_move", line)
      [] code = 1  -> handle_move(x, "coordinated_move", line)
      [] code = 20 -> [same EXCEPT !.x.p.unit_to_mm_factor = F_25_4]
      [] code = 21 -> [same EXCEPT !.x.p.unit_to_mm_factor = F_1_0]
      [] code = 28 -> handle_home(x, line)
      [] code = 90 -> [same EXCEPT !.x.p = set_all_axis_to_absolute(@, TRUE)]
      [] code = 91 -> [same EXCEPT !.x.p = set_all_axis_to_absolute(@, FALSE)]
      [] code = 92 -> handle_rebase(x, line)
      [] OTHER     -> unprocessed(x, letter, value, line)
  ELSE IF letter = "M" THEN
    CASE code = 82  -> [same EXCEPT !.x.p.axis_is_absolute[AXIS("E")] = TRUE]
      [] code = 83  -> [same EXCEPT !.x.p.axis_is_absolute[AXIS("E")] = FALSE]
      [] code = 84  -> [same EXCEPT !.x = Emit(@, "disable_motors", <<>>)]
      [] code = 104 -> set_S_param(x, "set_temperature", line)
      [] code = 106 -> set_S_param(x, "set_fanspeed", line)
      [] code = 107 -> [same EXCEPT !.x = Emit(@, "set_fanspeed", 0)]
      [] code = 109 -> [set_S_param(x, "set_temperature", line)
                          EXCEPT !.x = Emit(@, "wait_temperature", <<>>)]
      [] code = 116 -> [same EXCEPT !.x = Emit(@, "wait_temperature", <<>>)]
      [] OTHER      -> unprocessed(x, letter, value, line)
  ELSE IF letter = "N" THEN same
  ELSE unprocessed(x, letter, value, line))

RECURSIVE parse_loop(_, _)
\* while ((line = parse_next_pair(line, &letter, &value))) { ... }
parse_loop(x, line) ==
  Let(Pair(x, line), LAMBDA t :
  Let(Absorb(x, t), LAMBDA x1 :
    IF t.line = NULL THEN x1
    ELSE Let(dispatch(x1, t.letter, t.value, t.line), LAMBDA r :
           parse_loop(r.x, r.line))))

\* gcodep_parse_line(p, line): the execution when the loop has ended.
gcodep_parse_line(q, line, beyond, cb, conv) ==
  parse_loop([p |-> q, buf |-> line, out |-> <<>>, rd |-> FALSE, wr |-> FALSE,
              beyond |-> beyond, cb |-> cb, conv |-> conv], 1)

(***************************************************************************)
(* The state machine: one parser, fed one line per step.                   *)
(*   p      the parser struct (struct GCodeParser)                         *)
(*   calls  the calls of gcodep_parse_line made so far, each with the line *)
(*          passed, the buffer as the call left it, the callbacks it       *)
(*          invoked, the struct before and after, and whether it touched   *)
(*          memory beyond the line's terminator                            *)
(***************************************************************************)
VARIABLES p, calls

vars == <<p, calls>>

\* The callback sets of the collaborators considered: a full collaborator
\* and none at all (the parser used standalone).
Collaborators == {Slots, {}}

\* What may follow the line's terminator in memory.
BeyondBytes == {NUL, "x"}

\* What the collaborator's unprocessed callback may return.
CbReturns == {"none", "rest", "skip"}

Init ==
  /\ \E supplied \in Collaborators : p = gcodep_new(supplied)
  /\ calls = <<>>

\* The caller passes a line to gcodep_parse_line.
ParseLine(line, beyond, cb, conv) ==
  \E x \in {gcodep_parse_line(p, line, beyond, cb, conv)} :
    /\ p' = x.p
    /\ calls' = Append(calls, [line |-> line, buf |-> x.buf, out |-> x.out,
                               pre |-> p, post |-> x.p,
                               rd |-> x.rd, wr |-> x.wr])

(***************************************************************************)
(* Words and lines of the input vocabulary.  Unless a specification says   *)
(* otherwise its lines hold no G or M value outside the range of int, so   *)
(* that the outcome of converting one is not consulted.                    *)
(***************************************************************************)
SP == <<" ">>

\* The text of a line made of the given words separated by one space.
RECURSIVE Join(_)
Join(ws) ==
  IF ws = <<>> THEN <<>>
  ELSE IF Len(ws) = 1 THEN ws[1]
  ELSE ws[1] \o SP \o Join(Tail(ws))

G0 == <<"G","0">>
G1 == <<"G","1">>
G20 == <<"G","2","0">>
G21 == <<"G","2","1">>
G28 == <<"G","2","8">>
G90 == <<"G","9","0">>
G91 == <<"G","9","1">>
G92 == <<"G","9","2">>
M104 == <<"M","1","0","4">>
M106 == <<"M","1","0","6">>

\* The call records and their parts.
Calls == 1..Len(calls)

\* The callbacks call c invoked through slot op, in order.
Of(c, op) == SelectSeq(c.out, LAMBDA a : a.op = op)

\* The machine state of a parser struct: everything but the callbacks.
Machine(q) == [unit_scale    |-> q.unit_to_mm_factor,
               axis_absolute |-> q.axis_is_absolute,
               relative_zero |-> q.relative_zero,
               position      |-> q.axes_pos,
               feedrate      |-> q.current_feedrate]

Zeros == [i \in Axes |-> 0]

\* The words of a line: its maximal runs of characters other than a space.
WordLen(s) ==
  IF \E i \in 1..Len(s) : s[i] = " "
  THEN (CHOOSE i \in 1..Len(s) : s[i] = " " /\ \A j \in 1..(i - 1) : s[j] # " ") - 1
  ELSE Len(s)

RECURSIVE Words(_)
Words(s) ==
  IF s = <<>> THEN <<>>
  ELSE IF s[1] = " " THEN Words(Tail(s))
  ELSE <<SubSeq(s, 1, WordLen(s))>> \o Words(SubSeq(s, WordLen(s) + 1, Len(s)))

\* The letter of a word.
LetterOf(w) == toupper(w[1])

RECURSIVE AxisPrefix(_)
\* The axes named by the leading words of ws that start with an axis letter.
AxisPrefix(ws) ==
  IF ws = <<>> \/ ~IsAxis(LetterOf(ws[1])) THEN {}
  ELSE {AXIS(LetterOf(ws[1]))} \cup AxisPrefix(Tail(ws))

RECURSIVE MaskUpTo(_, _)
\* The bitmask with exactly the bits of the axes in S that are <= n.
MaskUpTo(S, n) ==
  IF n < 0 THEN 0 ELSE (IF n \in S THEN 2^n ELSE 0) + MaskUpTo(S, n - 1)

(***************************************************************************)
(* Homing: G28.                                                            *)
(***************************************************************************)
MaxHomeLines == 3

HomeLines == {
  G28,
  Join(<<G28, <<"X">>>>),
  Join(<<G28, <<"X","0">>>>),
  Join(<<G28, <<"Y","7">>, <<"A","0">>>>),
  Join(<<G28, <<"X","0">>, <<"X","1">>, <<"C","2">>>>),
  Join(<<G28, G1, <<"X","5">>>>),
  Join(<<G1, <<"X","5">>, <<"E","2">>, G92, <<"X","1">>, <<"Y","1">>>>),
  Join(<<G91, G20, G1, <<"F","9">>>>),
  <<"G">>,
  <<"M">>,
  <<"X">> }

NextHome ==
  \E line \in HomeLines, beyond \in BeyondBytes, cb \in CbReturns :
    Len(calls) < MaxHomeLines /\ ParseLine(line, beyond, cb, "indefinite")

SpecHome == Init /\ [][NextHome]_vars

\* A line that is G28 followed by words that all start with an axis letter.
IsHomeLine(line) ==
  LET ws == Words(line)
  IN  /\ ws # <<>> /\ ws[1] = G28
      /\ \A k \in 2..Len(ws) : IsAxis(LetterOf(ws[k]))

\* The axes a G28 line names.
NamedAxes(line) == AxisPrefix(Tail(Words(line)))

\* C1 (as claimed): a G28 line that names axis letters, with or without a
\* value after the letter, emits exactly one go_home whose bitmask has
\* exactly the bits of the named axes, and leaves position and relative_zero
\* of all 7 axes zero; in particular the line `G28 X` homes X only.
C1_NamedAxesHomed ==
  \A i \in Calls :
    LET c == calls[i] IN
    (IsHomeLine(c.line) /\ NamedAxes(c.line) # {}) =>
      /\ Len(c.out) = 1
      /\ c.out[1].op = "go_home"
      /\ c.out[1].arg = MaskUpTo(NamedAxes(c.line), GCODE_NUM_AXES - 1)
      /\ c.post.axes_pos = Zeros
      /\ c.post.relative_zero = Zeros

\* C5: every G28 line (bare or with axis words) zeroes position and
\* relative_zero of all 7 axes, leaves unit_scale, axis_absolute and feedrate
\* as they were and emits exactly one go_home; a G28 followed by no axis word
\* emits the bitmask with all 7 bits set, also when another command follows
\* on the line.
C5_HomeResets ==
  \A i \in Calls :
    LET c == calls[i] IN
    /\ IsHomeLine(c.line) =>
         /\ c.post.axes_pos = Zeros
         /\ c.post.relative_zero = Zeros
         /\ c.post.unit_to_mm_factor = c.pre.unit_to_mm_factor
         /\ c.post.axis_is_absolute = c.pre.axis_is_absolute
         /\ c.post.current_feedrate = c.pre.current_feedrate
         /\ Len(c.out) = 1
         /\ c.out[1].op = "go_home"
    /\ (Words(c.line) # <<>> /\ Words(c.line)[1] = G28 /\ NamedAxes(c.line) = {}) =>
         /\ Len(Of(c, "go_home")) = 1
         /\ c.out[1].op = "go_home"
         /\ c.out[1].arg = 2^7 - 1

\* C5's case: a bare G28 reached with nonzero position and origin, imperial
\* units, relative axes and a feedrate set.
C5_Witness ==
  \E i \in Calls :
    LET c == calls[i] IN
    /\ c.line = G28
    /\ c.pre.axes_pos[AXIS("X")] # 0
    /\ c.pre.relative_zero[AXIS("X")] # 0
    /\ c.pre.unit_to_mm_factor = F_25_4
    /\ ~c.pre.axis_is_absolute[AXIS("X")]
    /\ c.pre.current_feedrate # 0
    /\ c.post.axes_pos = Zeros
    /\ c.out[1].arg = 2^7 - 1

\* C9: a line that is a single letter with no value (the malformed line `G`,
\* and likewise `M` or `X`) emits no action and leaves every field of the
\* machine state as it was before the line.
C9_LetterOnlyLine ==
  \A i \in Calls :
    LET c == calls[i] IN
    c.line \in {<<"G">>, <<"M">>, <<"X">>} =>
      /\ c.out = <<>>
      /\ Machine(c.post) = Machine(c.pre)

\* C9's case: the line `G` reached in a state that differs from the initial
\* one in every field.
C9_Witness ==
  \E i \in Calls :
    LET c == calls[i] IN
    /\ c.line = <<"G">>
    /\ c.pre.axes_pos[AXIS("X")] # 0
    /\ c.pre.relative_zero[AXIS("X")] # 0
    /\ c.pre.unit_to_mm_factor = F_25_4
    /\ ~c.pre.axis_is_absolute[AXIS("X")]
    /\ c.pre.current_feedrate # 0
    /\ c.out = <<>>
    /\ Machine(c.post) = Machine(c.pre)

(***************************************************************************)
(* Forwarded words and the S parameter: unprocessed, M104, M106.           *)
(***************************************************************************)
MaxWordLines == 2

WordLines == {
  Join(<<<<"T","1">>, G1, <<"X","2">>>>),
  Join(<<<<"G","4">>, <<"X","1">>>>),
  <<"M","5">>,
  SP \o Join(<<<<"x","3">>, <<"T","2","2">>, G20>>),
  Join(<<M104, <<"S","2","0","0">>>>),
  M104,
  Join(<<M104, <<"X","5">>>>),
  Join(<<M104, G1, <<"X","2">>>>),
  Join(<<M106, <<"s","2","5","5">>, G91>>),
  Join(<<M106, <<"T","1">>>>),
  G20,
  Join(<<G20, M104, <<"S","1",".","5">>, M106>>) }

NextWords ==
  \E line \in WordLines, beyond \in BeyondBytes, cb \in CbReturns :
    Len(calls) < MaxWordLines /\ ParseLine(line, beyond, cb, "indefinite")

SpecWords == Init /\ [][NextWords]_vars

\* The switch of gcodep_parse_line: the words no case handles.
Forwarded(letter, value) ==
  LET code == float_to_int(value) IN
  CASE letter = "G" -> code \notin {0, 1, 20, 21, 28, 90, 91, 92}
    [] letter = "M" -> code \notin {82, 83, 84, 104, 106, 107, 109, 116}
    [] letter = "N" -> FALSE
    [] OTHER        -> TRUE

\* The cursor a text recorded for a callback stands for in buffer buf.
Cursor(buf, text) == IF text = <<"NULL">> THEN NULL ELSE Len(buf) - Len(text) + 1

\* The loop of gcodep_parse_line entered with the cursor at line.
Resume(q, buf, line, beyond, cb) ==
  parse_loop([p |-> q, buf |-> buf, out |-> <<>>, rd |-> FALSE, wr |-> FALSE,
              beyond |-> beyond, cb |-> cb, conv |-> "indefinite"], line)

\* The calls of the unprocessed callback.
IsUnprocessed(a) == a.op = "unprocessed"

\* C2 (as claimed): whenever a word W is forwarded to the unprocessed
\* callback, the remaining_line argument still starts at W: the first
\* letter/number pair of the remaining text is W's letter and value.
C2_RemainingStartsAtWord ==
  \A i \in Calls :
    LET c == calls[i] IN
    \A j \in 1..Len(c.out) :
      IsUnprocessed(c.out[j]) =>
        LET a == c.out[j].arg
            t == parse_next_pair(a.remaining, 1, NUL)
        IN  /\ a.remaining # <<"NULL">>
            /\ t.line # NULL
            /\ t.letter = a.letter
            /\ t.value = a.value

\* C2 (amended): whenever a word W is forwarded to the unprocessed callback
\* (a letter other than G/M/N, or a G/M code with no handler), the
\* remaining_line argument is the text that follows W and the whitespace
\* after it, together with W's uppercased letter and its numeric value; the
\* loop then resumes from whatever remainder the callback returns (and ends
\* when that is NULL).  Stated for every call of the callback (first
\* conjunct) and, with the resumption, for a line whose first word is
\* forwarded (second conjunct; the byte beyond the terminator is read only by
\* a pair that fails, so the first pair does not depend on it).
C2_RemainingFollowsWord ==
  \A i \in Calls :
    LET c == calls[i] IN
    /\ \A j \in 1..Len(c.out) :
         IsUnprocessed(c.out[j]) =>
           LET a == c.out[j].arg IN
           /\ Forwarded(a.letter, a.value)
           /\ \E k \in 1..Len(c.line) :
                LET t == parse_next_pair(c.line, k, NUL) IN
                /\ t.line # NULL
                /\ t.letter = a.letter
                /\ t.value = a.value
                /\ a.remaining = TextAt(c.line, t.line)
    /\ LET t == parse_next_pair(c.line, 1, NUL) IN
       (t.line # NULL /\ Forwarded(t.letter, t.value)) =>
         /\ c.out # <<>>
         /\ IsUnprocessed(c.out[1])
         /\ c.out[1].arg.letter = t.letter
         /\ c.out[1].arg.value = t.value
         /\ c.out[1].arg.remaining = TextAt(c.line, t.line)
         /\ \E beyond \in BeyondBytes, cb \in CbReturns :
              LET r == Resume(c.pre, c.line,
                              Cursor(c.line, c.out[1].arg.returned), beyond, cb)
              IN  /\ Tail(c.out) = r.out
                  /\ c.post = r.p

\* C2's case: the line `T1 G1 X2` with a collaborator whose callback hands
\* the remainder back: T1 is forwarded with the text `G1 X2`, and the move
\* that follows is carried out.
C2_Witness ==
  \E i \in Calls :
    LET c == calls[i] IN
    /\ c.line = Join(<<<<"T","1">>, G1, <<"X","2">>>>)
    /\ Len(c.out) = 2
    /\ IsUnprocessed(c.out[1])
    /\ c.out[1].fn = <<"user", "unprocessed">>
    /\ c.out[1].arg.letter = "T"
    /\ c.out[1].arg.value = RatToF(1, 1)
    /\ c.out[1].arg.remaining = Join(<<G1, <<"X","2">>>>)
    /\ c.out[1].arg.returned = c.out[1].arg.remaining
    /\ c.out[2].op = "coordinated_move"

\* The words of a line after the first.
RestOfLine(line) == SubSeq(line, WordLen(line) + 1, Len(line))

\* The value strtof reads after the letter of word w.
ValueOf(w) == strtof(w, 2).value

\* The callback slot an S-parameter command sets.
SParamSlot(w) == IF w = M104 THEN "set_temperature" ELSE "set_fanspeed"

\* C10: a line that starts with `M104 S<v>` emits first one set_temperature
\* carrying the raw value v, not multiplied by unit_scale (also after G20);
\* a line that starts with an M104 whose next word is not S, or that is M104
\* alone, emits no set_temperature and consumes no word: the call does what
\* the line without the M104 does, the next word being dispatched as a
\* top-level word.  M106 behaves the same with set_fanspeed.
C10_SParam ==
  \A i \in Calls :
    LET c  == calls[i]
        ws == Words(c.line)
    IN
    (ws # <<>> /\ ws[1] \in {M104, M106}) =>
      LET slot == SParamSlot(ws[1]) IN
      IF Len(ws) >= 2 /\ LetterOf(ws[2]) = "S"
      THEN /\ Len(Of(c, slot)) = 1
           /\ c.out[1].op = slot
           /\ c.out[1].arg = ValueOf(ws[2])
      ELSE /\ Of(c, slot) = <<>>
           /\ \E beyond \in BeyondBytes, cb \in CbReturns :
                LET r == gcodep_parse_line(c.pre, RestOfLine(c.line), beyond, cb, "indefinite")
                IN  /\ c.out = r.out
                    /\ c.post = r.p

\* C10's case: `M104 S200` in imperial units emits set_temperature(200), not
\* 200 * 25.4.
C10_Witness ==
  \E i \in Calls :
    LET c == calls[i] IN
    /\ c.line = Join(<<M104, <<"S","2","0","0">>>>)
    /\ c.pre.unit_to_mm_factor = F_25_4
    /\ Len(c.out) = 1
    /\ c.out[1].op = "set_temperature"
    /\ c.out[1].arg = RatToF(200, 1)
    /\ c.out[1].arg # fmul(RatToF(200, 1), F_25_4)

(***************************************************************************)
(* Moves.  The lines of the specifications below hold no forwarded word    *)
(* and no pair that ends at the terminator, so neither the return of the   *)
(* unprocessed callback nor the byte beyond the terminator is consulted.   *)
(***************************************************************************)
\* A line that is one G0/G1 followed by axis and F words only.
IsMoveLine(line) ==
  LET ws == Words(line) IN
  /\ ws # <<>> /\ ws[1] \in {G0, G1}
  /\ \A k \in 2..Len(ws) : IsAxis(LetterOf(ws[k])) \/ LetterOf(ws[k]) = "F"

\* A line that is the given command word followed by one word of the axis.
IsAxisLine(line, cmd, letter) ==
  LET ws == Words(line) IN
  Len(ws) = 2 /\ ws[1] = cmd /\ LetterOf(ws[2]) = letter

\* The X axis.
AXIS_X == AXIS("X")

AXIS_Y == AXIS("Y")

\* The only callback of a call, when it invoked exactly one through slot op.
OnlyMove(c, op) == Len(c.out) = 1 /\ c.out[1].op = op

(***************************************************************************)
(* Absolute moves and units: G0, G1, G20, G21.                             *)
(***************************************************************************)
MaxAbsLines == 4

AbsLines == {
  G20,
  G21,
  Join(<<G1, <<"X","1">>>>),
  Join(<<G1, <<"X","2","5",".","4">>>>),
  Join(<<G1, <<"X","0",".","1">>, <<"Y","-","3">>>>),
  Join(<<G0, <<"Y","1">>, <<"Z","7">>, <<"X","2">>>>),
  Join(<<G28, G91, <<"M","8","3">>, M104, <<"S","2","5",".","4">>, G92, <<"X","1">>>>) }

NextAbs ==
  \E line \in AbsLines :
    Len(calls) < MaxAbsLines /\ ParseLine(line, NUL, "none", "indefinite")

SpecAbs == Init /\ [][NextAbs]_vars

\* C3: with all axes in absolute mode, after any sequence of move lines
\* (G0/G1) under either unit scale (G20/G21), the line `G1 X<a> Y<b>` emits
\* one coordinated_move whose position vector has X = a * unit_scale,
\* Y = b * unit_scale and for every other axis the value it had before the
\* line; the vector is the stored position.
C3_AbsoluteMove ==
  \A i \in Calls :
    LET c  == calls[i]
        ws == Words(c.line)
    IN
    ( /\ Len(ws) = 3 /\ ws[1] = G1
      /\ LetterOf(ws[2]) = "X" /\ LetterOf(ws[3]) = "Y"
      /\ \A k \in Axes : c.pre.axis_is_absolute[k]
      /\ \A j \in 1..(i - 1) :
           IsMoveLine(calls[j].line) \/ calls[j].line \in {G20, G21} ) =>
      /\ OnlyMove(c, "coordinated_move")
      /\ c.out[1].arg = c.post.axes_pos
      /\ c.out[1].arg[AXIS_X] = fmul(ValueOf(ws[2]), c.pre.unit_to_mm_factor)
      /\ c.out[1].arg[AXIS_Y] = fmul(ValueOf(ws[3]), c.pre.unit_to_mm_factor)
      /\ \A k \in Axes \ {AXIS_X, AXIS_Y} : c.out[1].arg[k] = c.pre.axes_pos[k]

\* C3's case: `G1 X0.1 Y-3` in imperial units after a move that left X, Y
\* and Z elsewhere.
C3_Witness ==
  \E i \in Calls :
    LET c == calls[i] IN
    /\ c.line = Join(<<G1, <<"X","0",".","1">>, <<"Y","-","3">>>>)
    /\ \A j \in 1..(i - 1) :
         IsMoveLine(calls[j].line) \/ calls[j].line \in {G20, G21}
    /\ c.pre.unit_to_mm_factor = F_25_4
    /\ c.pre.axes_pos[AXIS_X] # 0
    /\ c.pre.axes_pos[AXIS_Y] # 0
    /\ c.pre.axes_pos[AXIS("Z")] # 0
    /\ OnlyMove(c, "coordinated_move")
    /\ c.out[1].arg[AXIS_X] = fmul(RatToF(1, 10), F_25_4)
    /\ c.out[1].arg[AXIS_Y] = -fmul(RatToF(3, 1), F_25_4)
    /\ c.out[1].arg[AXIS("Z")] = c.pre.axes_pos[AXIS("Z")]

\* The four lines of the unit round trip, from call i on.
IsRoundTrip(i) ==
  /\ i + 3 <= Len(calls)
  /\ calls[i].line = G20
  /\ calls[i + 1].line = Join(<<G1, <<"X","1">>>>)
  /\ calls[i + 2].line = G21
  /\ calls[i + 3].line = Join(<<G1, <<"X","2","5",".","4">>>>)
  /\ \A k \in Axes : calls[i].pre.axis_is_absolute[k]
  /\ calls[i].pre.relative_zero = Zeros

\* C8: in absolute mode with relative_zero at zero, `G20`, `G1 X1`, `G21`,
\* `G1 X25.4` emit two moves with equal canonical X, 25.4 both times;
\* unit_scale is 25.4 after a G20 line and 1.0 after a G21 line, and a line
\* with neither word leaves it as it was.
C8_UnitRoundTrip ==
  /\ \A i \in Calls :
       LET c == calls[i] IN
       /\ c.line = G20 => c.post.unit_to_mm_factor = RatToF(254, 10)
       /\ c.line = G21 => c.post.unit_to_mm_factor = RatToF(1, 1)
       /\ (\A k \in 1..Len(Words(c.line)) : Words(c.line)[k] \notin {G20, G21}) =>
            c.post.unit_to_mm_factor = c.pre.unit_to_mm_factor
  /\ \A i \in Calls :
       IsRoundTrip(i) =>
         /\ OnlyMove(calls[i + 1], "coordinated_move")
         /\ OnlyMove(calls[i + 3], "coordinated_move")
         /\ calls[i + 1].out[1].arg[AXIS_X] = RatToF(254, 10)
         /\ calls[i + 3].out[1].arg[AXIS_X] = RatToF(254, 10)

\* C8's case: the round trip carried out, both moves at X = 25.4.
C8_Witness ==
  \E i \in Calls :
    /\ IsRoundTrip(i)
    /\ calls[i + 1].post.unit_to_mm_factor = RatToF(254, 10)
    /\ calls[i + 3].post.unit_to_mm_factor = RatToF(1, 1)
    /\ calls[i + 1].out[1].arg[AXIS_X] = calls[i + 3].out[1].arg[AXIS_X]
    /\ calls[i + 3].post.axes_pos[AXIS_X] = RatToF(254, 10)

(***************************************************************************)
(* Relative moves: G91.                                                    *)
(***************************************************************************)
MaxRelLines == 4

RelLines == {
  G91,
  G90,
  G20,
  Join(<<G1, <<"X","1">>>>),
  Join(<<G1, <<"X","-","0",".","3">>>>),
  Join(<<G0, <<"Y","2">>, <<"X","0",".","1">>>>) }

NextRel ==
  \E line \in RelLines :
    Len(calls) < MaxRelLines /\ ParseLine(line, NUL, "none", "indefinite")

SpecRel == Init /\ [][NextRel]_vars

\* G91 and then `G1 X1` twice, from call i on.
IsTwoSteps(i) ==
  /\ i + 2 <= Len(calls)
  /\ calls[i].line = G91
  /\ calls[i + 1].line = Join(<<G1, <<"X","1">>>>)
  /\ calls[i + 2].line = Join(<<G1, <<"X","1">>>>)

\* C6: in relative mode each `G1 X<d>` line adds d * unit_scale to the
\* stored X position, leaves the other axes, and emits one move carrying the
\* stored (cumulative) position; after `G91`, two successive `G1 X1` lines
\* starting at X = 0 emit two moves with X = 1 * unit_scale and then
\* X = 2 * unit_scale, and the final stored position is X = 2 * unit_scale.
C6_RelativeMove ==
  /\ \A i \in Calls :
       LET c == calls[i] IN
       (IsAxisLine(c.line, G1, "X") /\ ~c.pre.axis_is_absolute[AXIS_X]) =>
         /\ OnlyMove(c, "coordinated_move")
         /\ c.out[1].arg = c.post.axes_pos
         /\ c.post.axes_pos =
              [c.pre.axes_pos EXCEPT ![AXIS_X] =
                 fadd(@, fmul(ValueOf(Words(c.line)[2]), c.pre.unit_to_mm_factor))]
  /\ \A i \in Calls :
       (IsTwoSteps(i) /\ calls[i].pre.axes_pos[AXIS_X] = 0) =>
         LET unit == calls[i].pre.unit_to_mm_factor IN
         /\ OnlyMove(calls[i + 1], "coordinated_move")
         /\ OnlyMove(calls[i + 2], "coordinated_move")
         /\ calls[i + 1].out[1].arg[AXIS_X] = fmul(RatToF(1, 1), unit)
         /\ calls[i + 2].out[1].arg[AXIS_X] = fmul(RatToF(2, 1), unit)
         /\ calls[i + 2].post.axes_pos[AXIS_X] = fmul(RatToF(2, 1), unit)

\* C6's case: G91 and two `G1 X1` in imperial units, ending at X = 50.8.
C6_Witness ==
  \E i \in Calls :
    /\ IsTwoSteps(i)
    /\ calls[i].pre.axes_pos[AXIS_X] = 0
    /\ calls[i].pre.unit_to_mm_factor = F_25_4
    /\ calls[i].pre.axis_is_absolute[AXIS_X]
    /\ calls[i + 1].out[1].arg[AXIS_X] = F_25_4
    /\ calls[i + 2].out[1].arg[AXIS_X] = RatToF(508, 10)
    /\ calls[i + 2].post.axes_pos[AXIS_X] = RatToF(508, 10)

(***************************************************************************)
(* Feedrate: the F word of G0/G1.                                          *)
(***************************************************************************)
MaxFeedLines == 4

F100X1 == Join(<<G1, <<"F","1","0","0">>, <<"X","1">>>>)

FeedLines == {
  F100X1,
  Join(<<G1, <<"F","5","0">>>>),
  Join(<<G0, <<"F","1","0","0">>, <<"F","5","0">>, <<"F","5","0">>, <<"Y","2">>>>),
  Join(<<G1, <<"F","2","5","4","0">>, <<"X","1">>>>),
  Join(<<G1, <<"X","1">>>>),
  G20,
  G21 }

NextFeed ==
  \E line \in FeedLines :
    Len(calls) < MaxFeedLines /\ ParseLine(line, NUL, "none", "indefinite")

SpecFeed == Init /\ [][NextFeed]_vars

RECURSIVE Flatten(_)
\* The callbacks of a sequence of calls, in order.
Flatten(cs) == IF cs = <<>> THEN <<>> ELSE Head(cs).out \o Flatten(Tail(cs))

\* The set_feedrate values of all calls so far, in order.
Feedrates == SelectSeq(Flatten(calls), LAMBDA a : a.op = "set_feedrate")

\* C7: a G0/G1 line with one F word emits set_feedrate, carrying the
\* unit-scaled value, if and only if that value differs from the stored
\* feedrate, and the stored feedrate is that value afterwards; over any
\* sequence of lines no two consecutive set_feedrate carry the same value;
\* of two consecutive `G1 F100 X1` lines the second emits no set_feedrate
\* and the first emits exactly one unless the stored feedrate already was
\* 100 * unit_scale (as it is not in a fresh parser).
C7_FeedrateSuppressed ==
  /\ \A i \in Calls :
       LET c  == calls[i]
           ws == Words(c.line)
       IN
       (IsMoveLine(c.line) /\ Len(ws) >= 2 /\ LetterOf(ws[2]) = "F"
          /\ \A k \in 3..Len(ws) : LetterOf(ws[k]) # "F") =>
         LET unit_value == fmul(ValueOf(ws[2]), c.pre.unit_to_mm_factor) IN
         /\ c.post.current_feedrate = unit_value
         /\ IF unit_value # c.pre.current_feedrate
            THEN /\ Len(Of(c, "set_feedrate")) = 1
                 /\ c.out[1].op = "set_feedrate"
                 /\ c.out[1].arg = unit_value
            ELSE Of(c, "set_feedrate") = <<>>
  /\ \A i \in Calls :
       (\A k \in 1..Len(Words(calls[i].line)) :
          LetterOf(Words(calls[i].line)[k]) # "F") =>
         /\ Of(calls[i], "set_feedrate") = <<>>
         /\ calls[i].post.current_feedrate = calls[i].pre.current_feedrate
  /\ \A k \in 1..(Len(Feedrates) - 1) : Feedrates[k].arg # Feedrates[k + 1].arg
  /\ \A i \in Calls :
       (i + 1 <= Len(calls) /\ calls[i].line = F100X1 /\ calls[i + 1].line = F100X1) =>
         /\ Of(calls[i + 1], "set_feedrate") = <<>>
         /\ Len(Of(calls[i], "set_feedrate")) =
              (IF calls[i].pre.current_feedrate
                    = fmul(RatToF(100, 1), calls[i].pre.unit_to_mm_factor)
               THEN 0 ELSE 1)

\* C7's case: two consecutive `G1 F100 X1` on a fresh parser: one
\* set_feedrate(100), on the first, and a move from each.
C7_Witness ==
  /\ Len(calls) >= 2
  /\ calls[1].line = F100X1
  /\ calls[2].line = F100X1
  /\ calls[1].pre.current_feedrate = 0
  /\ Len(calls[1].out) = 2
  /\ calls[1].out[1].op = "set_feedrate"
  /\ calls[1].out[1].arg = RatToF(100, 1)
  /\ calls[1].out[2].op = "coordinated_move"
  /\ OnlyMove(calls[2], "coordinated_move")

(***************************************************************************)
(* Redefining the origin: G92.                                             *)
(***************************************************************************)
MaxRebaseLines == 4

RebaseLines == {
  Join(<<G1, <<"X","3">>>>),
  Join(<<G1, <<"X","0",".","1">>>>),
  Join(<<G92, <<"X","5">>>>),
  Join(<<G1, <<"X","5">>>>),
  Join(<<G92, <<"y","-","2",".","5">>>>),
  Join(<<G1, <<"Y","-","2",".","5">>>>),
  G20,
  G91 }

NextRebase ==
  \E line \in RebaseLines :
    Len(calls) < MaxRebaseLines /\ ParseLine(line, NUL, "none", "indefinite")

SpecRebase == Init /\ [][NextRebase]_vars

\* Call i is `G92 <axis>v` and call i + 1 is `G1 <axis>v` with the axis in
\* absolute mode and the same unit scale.
IsRebaseThenMove(i, axis) ==
  /\ i + 1 <= Len(calls)
  /\ IsAxisLine(calls[i].line, G92, AxisLetters[axis + 1])
  /\ IsAxisLine(calls[i + 1].line, G1, AxisLetters[axis + 1])
  /\ ValueOf(Words(calls[i].line)[2]) = ValueOf(Words(calls[i + 1].line)[2])
  /\ calls[i + 1].pre.axis_is_absolute[axis]

\* What `G92 <axis>v` does to the parser q: nothing is emitted, position
\* stays, and relative_zero[axis] = position[axis] - v * unit_scale.
IsRebased(c, axis) ==
  /\ c.out = <<>>
  /\ c.post = [c.pre EXCEPT !.relative_zero[axis] =
                 fsub(c.pre.axes_pos[axis],
                      fmul(ValueOf(Words(c.line)[2]), c.pre.unit_to_mm_factor))]

\* A float that is a whole number below 2^23 in magnitude.
IsSmallWhole(c) ==
  /\ float_to_int(Abs(c)) < 2^23
  /\ Abs(c) = RatToF(float_to_int(Abs(c)), 1)

\* C4 (as claimed): `G92 <axis>v` emits no action, leaves position unchanged
\* and sets relative_zero[axis] = position[axis] - v * unit_scale; an
\* immediately following absolute-mode `G1 <axis>v` then produces no net
\* motion: position[axis] after the G1, and in the emitted move vector,
\* equals position[axis] before the G92, for any state and any value v.
C4_NoNetMotion ==
  \A i \in Calls : \A axis \in Axes :
    /\ IsAxisLine(calls[i].line, G92, AxisLetters[axis + 1]) =>
         IsRebased(calls[i], axis)
    /\ IsRebaseThenMove(i, axis) =>
         /\ OnlyMove(calls[i + 1], "coordinated_move")
         /\ calls[i + 1].out[1].arg[axis] = calls[i].pre.axes_pos[axis]
         /\ calls[i + 1].post.axes_pos[axis] = calls[i].pre.axes_pos[axis]

\* C4 (amended): `G92 <axis>v` emits no action, leaves position unchanged and
\* sets relative_zero[axis] = position[axis] - v * unit_scale, in float
\* arithmetic; an immediately following absolute-mode `G1 <axis>v` emits one
\* move and puts the axis at relative_zero[axis] + v * unit_scale, which is
\* the position before the G92 whenever that position and v * unit_scale are
\* whole numbers below 2^23 in magnitude (as in X=3, `G92 X5`, `G1 X5`) and
\* can otherwise differ from it by the rounding of the two operations.
C4_RebaseThenMove ==
  \A i \in Calls : \A axis \in Axes :
    /\ IsAxisLine(calls[i].line, G92, AxisLetters[axis + 1]) =>
         IsRebased(calls[i], axis)
    /\ IsRebaseThenMove(i, axis) =>
         LET before     == calls[i].pre.axes_pos[axis]
             unit_value == fmul(ValueOf(Words(calls[i].line)[2]),
                                calls[i].pre.unit_to_mm_factor)
         IN
         /\ OnlyMove(calls[i + 1], "coordinated_move")
         /\ calls[i + 1].out[1].arg = calls[i + 1].post.axes_pos
         /\ calls[i + 1].post.axes_pos[axis] = fadd(fsub(before, unit_value), unit_value)
         /\ (IsSmallWhole(before) /\ IsSmallWhole(unit_value)) =>
              calls[i + 1].post.axes_pos[axis] = before

\* C4's case: X = 3 reached, then `G92 X5` and `G1 X5`: the origin is at
\* X = -2 and the move goes to X = 3, where the machine already was.
C4_Witness ==
  \E i \in Calls :
    /\ IsRebaseThenMove(i, AXIS_X)
    /\ calls[i].pre.axes_pos[AXIS_X] = RatToF(3, 1)
    /\ calls[i].line = Join(<<G92, <<"X","5">>>>)
    /\ calls[i].out = <<>>
    /\ calls[i].post.relative_zero[AXIS_X] = -RatToF(2, 1)
    /\ calls[i + 1].out[1].arg[AXIS_X] = RatToF(3, 1)

(***************************************************************************)
(* The callbacks a collaborator leaves out: gcodep_new's defaults.         *)
(***************************************************************************)
MaxSinkLines == 1

\* One line for every callback slot.
SinkLines == {
  G28,
  Join(<<G1, <<"F","5">>, <<"X","1">>>>),
  Join(<<G0, <<"F","5">>, <<"X","1">>>>),
  Join(<<M104, <<"S","1">>>>),
  Join(<<M106, <<"S","1">>>>),
  <<"M","8","4">>,
  <<"M","1","1","6">>,
  <<"T","1">> }

\* Every choice of callbacks a collaborator can make.
InitSink ==
  /\ \E supplied \in SUBSET Slots : p = gcodep_new(supplied)
  /\ calls = <<>>

NextSink ==
  \E line \in SinkLines, cb \in CbReturns :
    Len(calls) < MaxSinkLines /\ ParseLine(line, NUL, cb, "indefinite")

SpecSink == InitSink /\ [][NextSink]_vars

\* The callbacks the collaborator of parser q supplied itself.
Supplied(q) == {slot \in Slots : q.callbacks[slot] = <<"user", slot>>}

\* C11 (as claimed): a command that triggers a callback the collaborator did
\* not supply invokes no operation of the collaborator, rapid_move included:
\* with coordinated_move supplied and rapid_move omitted, G0 does not invoke
\* the collaborator's coordinated_move.
C11_OmittedInvokesNoUser ==
  \A i \in Calls :
    LET c == calls[i] IN
    \A j \in 1..Len(c.out) :
      c.out[j].op \notin Supplied(c.pre) => c.out[j].fn[1] = "dummy"

\* C11 (amended): a callback the collaborator supplies is the one invoked;
\* every callback it does not supply, other than rapid_move, is the
\* diagnostic stand-in of that callback; an omitted rapid_move is whatever
\* coordinated_move is: the collaborator's coordinated_move when that is
\* supplied, the move stand-in when it is not.
C11_OmittedDefaults ==
  \A i \in Calls :
    LET c == calls[i] IN
    \A j \in 1..Len(c.out) :
      LET a == c.out[j] IN
      IF a.op \in Supplied(c.pre) THEN a.fn = <<"user", a.op>>
      ELSE IF a.op # "rapid_move" THEN a.fn = Dummy(a.op)
      ELSE a.fn = (IF "coordinated_move" \in Supplied(c.pre)
                   THEN <<"user", "coordinated_move">>
                   ELSE <<"dummy", "dummy_move">>)

\* C11's case: a collaborator that supplies coordinated_move only; `G0 F5 X1`
\* reports the feedrate to the stand-in and the move to the collaborator's
\* coordinated_move.
C11_Witness ==
  \E i \in Calls :
    LET c == calls[i] IN
    /\ Supplied(c.pre) = {"coordinated_move"}
    /\ c.line = Join(<<G0, <<"F","5">>, <<"X","1">>>>)
    /\ Len(c.out) = 2
    /\ c.out[1].op = "set_feedrate"
    /\ c.out[1].fn = <<"dummy", "dummy_set_feedrate">>
    /\ c.out[2].op = "rapid_move"
    /\ c.out[2].fn = <<"user", "coordinated_move">>

(***************************************************************************)
(* The tokenizer at the edges: values that run into an X, and letters      *)
(* followed by whitespace only.                                            *)
(***************************************************************************)
MaxTokenLines == 2

G0X1 == <<"G","0","X","1">>

g0x1 == <<"g","0","x","1">>

TokenLines == {
  G0X1,
  g0x1,
  <<"G","1","x","5">>,
  Join(<<G1, <<"Y","0","X","3">>>>),
  Join(<<G1, <<"X","1">>>>),
  Join(<<G92, <<"X","1">>>>),
  G20,
  <<"G">> \o SP,
  Join(<<G1, <<"X">>>>) \o SP }

NextToken ==
  \E line \in TokenLines, beyond \in BeyondBytes :
    Len(calls) < MaxTokenLines /\ ParseLine(line, beyond, "none", "indefinite")

SpecToken == Init /\ [][NextToken]_vars

\* Position k of s holds a single digit that starts a value and runs into an
\* x or X.
IsDigitBeforeX(s, k) ==
  /\ 1 < k /\ k < Len(s)
  /\ isdigit(s[k])
  /\ s[k + 1] \in {"x", "X"}
  /\ ~isdigit(s[k - 1]) /\ s[k - 1] \notin {".", "-", "+"}

RECURSIVE SpacedFrom(_, _)
\* The text of s from position k on, with a space put after every digit
\* that runs into an x or X.
SpacedFrom(s, k) ==
  IF k > Len(s) THEN <<>>
  ELSE IF IsDigitBeforeX(s, k) THEN <<s[k]>> \o SP \o SpacedFrom(s, k + 1)
  ELSE <<s[k]>> \o SpacedFrom(s, k + 1)

Spaced(s) == SpacedFrom(s, 1)

\* C12: in absolute mode with the origin at zero the line `G0X1` emits
\* exactly one rapid_move with X = 1 * unit_scale and the other axes as they
\* were; more generally a single digit that starts a value and is
\* immediately followed by x or X is parsed as that decimal digit and
\* tokenizing resumes at the X: the line does what the same line does with a
\* space between the digit and the X.
C12_DigitBeforeX ==
  \A i \in Calls :
    LET c == calls[i] IN
    /\ (c.line = G0X1 /\ c.pre.axis_is_absolute[AXIS_X]
          /\ c.pre.relative_zero[AXIS_X] = 0) =>
         /\ OnlyMove(c, "rapid_move")
         /\ c.out[1].arg = [c.pre.axes_pos EXCEPT ![AXIS_X] =
                              fmul(RatToF(1, 1), c.pre.unit_to_mm_factor)]
         /\ c.post.axes_pos = c.out[1].arg
    /\ (\E k \in 1..Len(c.line) : IsDigitBeforeX(c.line, k)) =>
         LET r == gcodep_parse_line(c.pre, Spaced(c.line), NUL, "none", "indefinite") IN
         /\ c.out = r.out
         /\ c.post = r.p

\* C12's case: `G0X1` in imperial units with X elsewhere: one rapid_move to
\* X = 25.4.
C12_Witness ==
  \E i \in Calls :
    LET c == calls[i] IN
    /\ c.line = G0X1
    /\ c.pre.unit_to_mm_factor = F_25_4
    /\ OnlyMove(c, "rapid_move")
    /\ c.out[1].arg[AXIS_X] = F_25_4
    /\ c.out[1].arg[AXIS_Y] = 0

\* C19 (as claimed): while tokenizing a line the tokenizer never reads or
\* writes a character position beyond the line's terminator, also for lines
\* where a letter is followed only by whitespace before the end (`G `,
\* `G1 X `).
C19_NoAccessBeyondTerminator ==
  \A i \in Calls : ~calls[i].rd /\ ~calls[i].wr

\* C20 (as claimed): after a line is interpreted the caller's line buffer
\* has exactly the characters it had before the call, also for lines that
\* trigger the workaround with a lowercase x (`g0x1`).
C20_BufferUnchanged ==
  \A i \in Calls : calls[i].buf = calls[i].line

(***************************************************************************)
(* Commands that share a line: where a handler stops.                      *)
(***************************************************************************)
MaxAheadLines == 2

M109 == <<"M","1","0","9">>

M84 == <<"M","8","4">>

AheadLines == {
  Join(<<G1, <<"X","1">>, M84>>),
  Join(<<G28, G1, <<"X","5">>>>),
  Join(<<G0, <<"F","5">>, <<"Y","2">>, G92, <<"X","1">>, M104, <<"S","5">>, G91>>),
  Join(<<M109, <<"S","2">>, G1, <<"Y","1">>>>),
  Join(<<M106, G28, <<"X","0">>, <<"Y","0">>, M104>>),
  Join(<<G92, <<"Y","1">>, G0, <<"Y","3">>, <<"X","1">>, G20>>),
  Join(<<G1, <<"F","9">>, G1, <<"X","1">>>>),
  Join(<<G28, <<"Z","0">>, G92, <<"X","2">>, M84>>) }

NextAhead ==
  \E line \in AheadLines :
    Len(calls) < MaxAheadLines /\ ParseLine(line, NUL, "none", "indefinite")

SpecAhead == Init /\ [][NextAhead]_vars

\* The letters of the words the handler of command word w takes as its
\* parameters.
ParamLetters(w) ==
  IF w \in {G0, G1} THEN {AxisLetters[k] : k \in 1..GCODE_NUM_AXES} \cup {"F"}
  ELSE IF w \in {G28, G92} THEN {AxisLetters[k] : k \in 1..GCODE_NUM_AXES}
  ELSE IF w \in {M104, M106, M109} THEN {"S"}
  ELSE {}

RECURSIVE TakeParams(_, _, _)
\* How many of the leading words of ws the handler of w takes, at most n.
TakeParams(w, ws, n) ==
  IF ws = <<>> \/ n = 0 \/ LetterOf(ws[1]) \notin ParamLetters(w) THEN 0
  ELSE 1 + TakeParams(w, Tail(ws), n - 1)

\* set_S_param reads one pair; the loops of the other handlers as many as
\* there are.
ParamLimit(w, ws) == IF w \in {M104, M106, M109} THEN 1 ELSE Len(ws)

RECURSIVE RunCommands(_, _)
\* The words ws taken one command at a time, each command with its
\* parameters passed as a line of its own: the callbacks invoked, in order,
\* and the parser at the end.
RunCommands(q, ws) ==
  IF ws = <<>> THEN [p |-> q, out |-> <<>>]
  ELSE Let(TakeParams(ws[1], Tail(ws), ParamLimit(ws[1], Tail(ws))), LAMBDA n :
       Let(gcodep_parse_line(q, Join(SubSeq(ws, 1, n + 1)), NUL, "none", "indefinite"), LAMBDA r :
       Let(RunCommands(r.p, SubSeq(ws, n + 2, Len(ws))), LAMBDA rr :
         [p |-> rr.p, out |-> r.out \o rr.out])))

\* The callback slots a call invoked, in order.
Ops(c) == [j \in 1..Len(c.out) |-> c.out[j].op]

\* C13: a handler that takes parameters (G0, G1, G28, G92, M104, M106,
\* M109) does not consume the first following word whose letter is not one
\* of its parameters; that word is dispatched exactly once as the next
\* top-level word: a line does what its commands do when each is passed with
\* its parameters as a line of its own, in order.  `G1 X1 M84` emits a move
\* and then disable_motors; `G28 G1 X5` emits go_home for all axes and then
\* a move.
C13_LookAhead ==
  \A i \in Calls :
    LET c == calls[i] IN
    /\ LET r == RunCommands(c.pre, Words(c.line)) IN
       Ops(c) = Ops(r) /\ c.out = r.out /\ c.post = r.p
    /\ c.line = Join(<<G1, <<"X","1">>, M84>>) =>
         Ops(c) = <<"coordinated_move", "disable_motors">>
    /\ c.line = Join(<<G28, G1, <<"X","5">>>>) =>
         /\ Ops(c) = <<"go_home", "coordinated_move">>
         /\ c.out[1].arg = kAllAxesBitmap
         /\ c.out[2].arg[AXIS_X] = fmul(RatToF(5, 1), c.pre.unit_to_mm_factor)

\* C13's case: `M106 G28 X0 Y0 M104` reached with position elsewhere: M106
\* takes nothing, G28 homes X and Y and stops at M104, which takes nothing.
C13_Witness ==
  \E i \in Calls :
    LET c == calls[i] IN
    /\ c.line = Join(<<M106, G28, <<"X","0">>, <<"Y","0">>, M104>>)
    /\ c.pre.axes_pos[AXIS_X] # 0
    /\ Ops(c) = <<"go_home">>
    /\ c.out[1].arg = 3
    /\ c.post.axes_pos = Zeros

(***************************************************************************)
(* One move per G0/G1.                                                     *)
(***************************************************************************)
MaxOneMoveLines == 2

G1X1X2 == Join(<<G1, <<"X","1">>, <<"X","2">>>>)

OneMoveLines == {
  G1X1X2,
  Join(<<G1, <<"F","5">>>>),
  G1,
  Join(<<G0, <<"X","1">>, <<"F","7">>, <<"Y","2">>>>),
  Join(<<G0, <<"F","3">>, <<"F","4">>, <<"Z","1">>, <<"F","5">>>>),
  Join(<<G1, <<"Y","1">>, <<"F","5">>>>),
  G20,
  G91 }

NextOneMove ==
  \E line \in OneMoveLines :
    Len(calls) < MaxOneMoveLines /\ ParseLine(line, NUL, "none", "indefinite")

SpecOneMove == Init /\ [][NextOneMove]_vars

\* The callback slot the moves of command word w go to.
MoveSlot(w) == IF w = G0 THEN "rapid_move" ELSE "coordinated_move"

\* The axis words among the words ws.
AxisWords(ws) == SelectSeq(ws, LAMBDA w : IsAxis(LetterOf(w)))

\* C14: a line that is one G0/G1 with its words emits exactly one move if
\* there is an axis word among them (also when an axis letter is repeated,
\* `G1 X1 X2`) and none if there are only F words or no words; the move is
\* the last callback of the command, after every set_feedrate wherever the
\* F stands in the line, and carries the 7 axes of the position that results
\* from all the words.
C14_OneMove ==
  \A i \in Calls :
    LET c  == calls[i]
        ws == Words(c.line)
    IN
    IsMoveLine(c.line) =>
      LET moves == SelectSeq(c.out, LAMBDA a : a.op \in {"rapid_move", "coordinated_move"})
      IN
      /\ \A j \in 1..Len(c.out) :
           c.out[j].op \in {"rapid_move", "coordinated_move", "set_feedrate"}
      /\ IF AxisWords(ws) # <<>>
         THEN /\ Len(moves) = 1
              /\ c.out[Len(c.out)].op = MoveSlot(ws[1])
              /\ DOMAIN c.out[Len(c.out)].arg = Axes
              /\ c.out[Len(c.out)].arg = c.post.axes_pos
         ELSE /\ moves = <<>>
              /\ c.post.axes_pos = c.pre.axes_pos
      /\ (c.line = G1X1X2 /\ c.pre.axis_is_absolute[AXIS_X]
            /\ c.pre.relative_zero[AXIS_X] = 0) =>
           c.out[1].arg[AXIS_X] = fmul(RatToF(2, 1), c.pre.unit_to_mm_factor)

\* C14's case: `G0 F3 F4 Z1 F5` on a fresh parser: three set_feedrate, the
\* last of them for an F after the axis word, and then the one rapid_move.
C14_Witness ==
  \E i \in Calls :
    LET c == calls[i] IN
    /\ c.line = Join(<<G0, <<"F","3">>, <<"F","4">>, <<"Z","1">>, <<"F","5">>>>)
    /\ Ops(c) = <<"set_feedrate", "set_feedrate", "set_feedrate", "rapid_move">>
    /\ c.out[3].arg = RatToF(5, 1)
    /\ c.out[4].arg[AXIS("Z")] = RatToF(1, 1)
    /\ c.post.current_feedrate = RatToF(5, 1)

(***************************************************************************)
(* Malformed words: a letter with no value, a value that is no number.     *)
(***************************************************************************)
MaxMalformedLines == 2

G1X5Y == Join(<<G1, <<"X","5">>, <<"Y">>>>)

MalformedLines == {
  G1X5Y,
  Join(<<G1, <<"X","5">>, <<"Y","a">>, G1, <<"X","7">>>>),
  Join(<<G91, G20, <<"M">>, G21>>),
  Join(<<G28, <<"X">>, G1, <<"X","3">>>>),
  Join(<<M104, <<"S">>, G28>>),
  Join(<<G92, <<"X","1">>, <<"Y","-">>, G90>>),
  Join(<<<<"T","1">>, G1, <<"F","5">>, <<"X","2">>, <<"Z",".">>, M84>>),
  Join(<<<<"G">>, <<"X","1">>>>) }

\* The collaborator's unprocessed callback hands back the remainder it was
\* given, so that the words after a forwarded word are reached.
NextMalformed ==
  \E line \in MalformedLines :
    Len(calls) < MaxMalformedLines /\ ParseLine(line, NUL, "rest", "indefinite")

SpecMalformed == Init /\ [][NextMalformed]_vars

\* Word m of ws is malformed: its letter is followed by no number, neither
\* in the word nor (after whitespace) at the start of the next word.
IsMalformedAt(ws, m) ==
  /\ strtof(ws[m], 2).endptr = 2
  /\ (Len(ws[m]) = 1 /\ m < Len(ws)) => strtof(ws[m + 1], 1).endptr = 1

\* The index of the first malformed word of ws, 0 if there is none.
FirstMalformed(ws) ==
  IF \E m \in 1..Len(ws) : IsMalformedAt(ws, m)
  THEN CHOOSE m \in 1..Len(ws) :
         IsMalformedAt(ws, m) /\ \A k \in 1..(m - 1) : ~IsMalformedAt(ws, k)
  ELSE 0

\* The callbacks invoked, without the text arguments of unprocessed (which
\* show the rest of the line, malformed words included).
Effects(out) ==
  [j \in 1..Len(out) |->
     IF IsUnprocessed(out[j])
     THEN <<out[j].fn, out[j].arg.letter, out[j].arg.value>>
     ELSE <<out[j].fn, out[j].arg>>]

\* C15: when a line holds a malformed word (a letter with no value, or with
\* a value that is not a number) after k well-formed words, the state
\* changes and the actions of the line are exactly those of the line that
\* ends after the k words (the move of a G1 whose later parameter is
\* malformed included, `G1 X5 Y`): no word at or after the malformed one
\* changes state or emits an action, and nothing before it is rolled back.
C15_NoRollback ==
  \A i \in Calls :
    LET c  == calls[i]
        ws == Words(c.line)
        m  == FirstMalformed(ws)
    IN
    /\ m # 0 =>
         LET r == gcodep_parse_line(c.pre, Join(SubSeq(ws, 1, m - 1)), NUL, "rest", "indefinite") IN
         /\ Ops(c) = Ops(r)
         /\ Effects(c.out) = Effects(r.out)
         /\ c.post = r.p
    /\ (c.line = G1X5Y /\ c.pre.axis_is_absolute[AXIS_X]) =>
         /\ OnlyMove(c, "coordinated_move")
         /\ c.out[1].arg = [c.pre.axes_pos EXCEPT ![AXIS_X] =
              fadd(c.pre.relative_zero[AXIS_X],
                   fmul(RatToF(5, 1), c.pre.unit_to_mm_factor))]
         /\ c.post.axes_pos = c.out[1].arg

\* C15's case: `G1 X5 Ya G1 X7` in relative imperial mode: the move by X5 is
\* carried out and reported, the later `G1 X7` is not.
C15_Witness ==
  \E i \in Calls :
    LET c == calls[i] IN
    /\ c.line = Join(<<G1, <<"X","5">>, <<"Y","a">>, G1, <<"X","7">>>>)
    /\ c.pre.unit_to_mm_factor = F_25_4
    /\ ~c.pre.axis_is_absolute[AXIS_X]
    /\ OnlyMove(c, "coordinated_move")
    /\ c.out[1].arg[AXIS_X] = RatToF(127, 1)
    /\ c.post.axes_pos[AXIS_Y] = 0

(***************************************************************************)
(* Absolute and relative mode, per axis: G90, G91, M82, M83.               *)
(***************************************************************************)
MaxModeLines == 4

M82 == <<"M","8","2">>

M83 == <<"M","8","3">>

G1X10E1 == Join(<<G1, <<"X","1","0">>, <<"E","1">>>>)

ModeLines == {
  G90,
  G91,
  M82,
  M83,
  G1X10E1,
  Join(<<G0, <<"E","2">>, <<"Y","1">>>>),
  Join(<<G28, G92, <<"E","1">>, M104, <<"S","3">>, G20, M84>>) }

NextMode ==
  \E line \in ModeLines :
    Len(calls) < MaxModeLines /\ ParseLine(line, NUL, "none", "indefinite")

SpecMode == Init /\ [][NextMode]_vars

AXIS_E == AXIS("E")

\* Where handle_move puts an axis of parser q for the value v.
Resolved(q, axis, v) ==
  IF q.axis_is_absolute[axis]
  THEN fadd(q.relative_zero[axis], fmul(v, q.unit_to_mm_factor))
  ELSE fadd(q.axes_pos[axis], fmul(v, q.unit_to_mm_factor))

\* `G90`, `M83` and then `G1 X10 E1` twice, from call i on.
IsMixedModes(i) ==
  /\ i + 3 <= Len(calls)
  /\ calls[i].line = G90
  /\ calls[i + 1].line = M83
  /\ calls[i + 2].line = G1X10E1
  /\ calls[i + 3].line = G1X10E1

\* C16: all 7 axes start absolute; G90 / G91 set the mode of all 7 axes, E
\* included whatever M82 / M83 set before; M82 / M83 set the mode of E only;
\* a line with none of the four leaves every mode as it was; in one G1 each
\* axis word is resolved with the mode of its own axis: after `G90`, `M83`,
\* two `G1 X10 E1` give X = 10 and E = 2 (times unit_scale, from E = 0 with
\* the origin of X at zero).
C16_AxisModes ==
  /\ calls = <<>> => \A k \in Axes : p.axis_is_absolute[k]
  /\ \A i \in Calls :
       LET c == calls[i] IN
       /\ c.line = G90 => \A k \in Axes : c.post.axis_is_absolute[k]
       /\ c.line = G91 => \A k \in Axes : ~c.post.axis_is_absolute[k]
       /\ c.line = M82 =>
            c.post.axis_is_absolute = [c.pre.axis_is_absolute EXCEPT ![AXIS_E] = TRUE]
       /\ c.line = M83 =>
            c.post.axis_is_absolute = [c.pre.axis_is_absolute EXCEPT ![AXIS_E] = FALSE]
       /\ (\A k \in 1..Len(Words(c.line)) : Words(c.line)[k] \notin {G90, G91, M82, M83}) =>
            c.post.axis_is_absolute = c.pre.axis_is_absolute
       /\ c.line = G1X10E1 =>
            c.post.axes_pos =
              [c.pre.axes_pos EXCEPT ![AXIS_X] = Resolved(c.pre, AXIS_X, RatToF(10, 1)),
                                     ![AXIS_E] = Resolved(c.pre, AXIS_E, RatToF(1, 1))]
  /\ \A i \in Calls :
       (IsMixedModes(i) /\ calls[i].pre.axes_pos[AXIS_E] = 0
          /\ calls[i].pre.relative_zero[AXIS_X] = 0) =>
         LET unit == calls[i].pre.unit_to_mm_factor IN
         /\ calls[i + 2].post.axes_pos[AXIS_X] = fmul(RatToF(10, 1), unit)
         /\ calls[i + 2].post.axes_pos[AXIS_E] = fmul(RatToF(1, 1), unit)
         /\ calls[i + 3].post.axes_pos[AXIS_X] = fmul(RatToF(10, 1), unit)
         /\ calls[i + 3].post.axes_pos[AXIS_E] = fmul(RatToF(2, 1), unit)
         /\ calls[i + 3].out[1].arg = calls[i + 3].post.axes_pos

\* C16's case: `G90`, `M83`, `G1 X10 E1`, `G1 X10 E1` on a fresh parser: X
\* stays at 10 while E adds up to 2.
C16_Witness ==
  /\ IsMixedModes(1)
  /\ calls[2].post.axis_is_absolute =
       [k \in Axes |-> k # AXIS_E]
  /\ calls[4].post.axes_pos[AXIS_X] = RatToF(10, 1)
  /\ calls[4].post.axes_pos[AXIS_E] = RatToF(2, 1)

(***************************************************************************)
(* Command codes with a fraction: (int) value.                             *)
(***************************************************************************)
MaxCodeLines == 2

\* G+0x1p31: the code 2^31, one more than INT_MAX.
GTooLarge == <<"G","+","0","x","1","p","3","1">>

CodeLines == {
  Join(<<<<"G","0",".","9">>, <<"X","1">>>>),
  Join(<<<<"G","1",".","5">>, <<"X","2",".","5">>>>),
  Join(<<<<"G","-","0",".","5">>, <<"Y","3">>>>),
  <<"G","2","0",".","9","9">>,
  Join(<<<<"G","9","1",".","9">>, <<"G","2","8",".","7">>, <<"X","0">>>>),
  Join(<<<<"M","1","0","4",".","5">>, <<"S","7">>>>),
  <<"M","8","4",".","9">>,
  Join(<<<<"G","4",".","5">>, <<"X","1">>>>),
  Join(<<<<"M","5",".","2","5">>, <<"G","9","2",".","5">>, <<"X","1">>>>),
  Join(<<GTooLarge, <<"G","1",".","9">>, <<"X","4">>>>) }

\* The collaborator's unprocessed callback hands back the remainder it was
\* given; the build converts an out-of-range code either way.
NextCode ==
  \E line \in CodeLines, conv \in ConvResults :
    Len(calls) < MaxCodeLines /\ ParseLine(line, NUL, "rest", conv)

SpecCode == Init /\ [][NextCode]_vars

\* Word w without its fraction: the text up to the first "."
IntegerPart(w) ==
  IF \E k \in 1..Len(w) : w[k] = "."
  THEN SubSeq(w, 1, (CHOOSE k \in 1..Len(w) :
                       w[k] = "." /\ \A j \in 1..(k - 1) : w[j] # ".") - 1)
  ELSE w

\* Line s with every G and M word cut to its integer part.
Truncated(s) ==
  Join([k \in 1..Len(Words(s)) |->
          IF LetterOf(Words(s)[k]) \in {"G", "M"}
          THEN IntegerPart(Words(s)[k]) ELSE Words(s)[k]])

\* The callbacks invoked, without the value passed to unprocessed and the
\* texts passed to and returned by it (in which the later words show
\* uncut).
Dispatched(out) ==
  [j \in 1..Len(out) |->
     IF IsUnprocessed(out[j])
     THEN <<out[j].fn, out[j].arg.letter, out[j].arg.returned = <<"NULL">> >>
     ELSE <<out[j].fn, out[j].arg>>]

\* The command codes gcodep_parse_line has a case for.
HandledCodes(letter) ==
  IF letter = "G" THEN {0, 1, 20, 21, 28, 90, 91, 92}
  ELSE IF letter = "M" THEN {82, 83, 84, 104, 106, 107, 109, 116}
  ELSE {}

\* C17: the handler of a G or M word is selected by its value truncated
\* toward zero: a line does what the line does whose G and M words are cut
\* to their integer part (`G0.9` is handled as G0, `G1.5` as G1, `G-0.5` as
\* G0), up to the value passed to unprocessed; a word whose truncated code
\* has no handler is forwarded to unprocessed with the untruncated value,
\* also when the code is outside the range of int.
C17_TruncatedCode ==
  \A i \in Calls :
    LET c  == calls[i]
        ws == Words(c.line)
    IN
    /\ \E conv \in ConvResults :
         LET r == gcodep_parse_line(c.pre, Truncated(c.line), NUL, "rest", conv) IN
         /\ Ops(c) = Ops(r)
         /\ Dispatched(c.out) = Dispatched(r.out)
         /\ c.post = r.p
    /\ (\A conv \in ConvResults :
          int_cast(ValueOf(ws[1]), conv) \notin HandledCodes(LetterOf(ws[1]))) =>
         /\ c.out # <<>>
         /\ IsUnprocessed(c.out[1])
         /\ c.out[1].arg.letter = LetterOf(ws[1])
         /\ c.out[1].arg.value = ValueOf(ws[1])
         /\ c.out[1].arg.remaining =
              TextAt(c.line, SkipSpace(c.line, WordLen(c.line) + 1))

\* C17's case: `G0.9 X1` emits the rapid_move of G0, and `G4.5 X1` goes to
\* unprocessed with the value 4.5.
C17_Witness ==
  /\ Len(calls) = 2
  /\ calls[1].line = Join(<<<<"G","0",".","9">>, <<"X","1">>>>)
  /\ OnlyMove(calls[1], "rapid_move")
  /\ calls[1].out[1].arg[AXIS_X] = RatToF(1, 1)
  /\ calls[2].line = Join(<<<<"G","4",".","5">>, <<"X","1">>>>)
  /\ IsUnprocessed(calls[2].out[1])
  /\ calls[2].out[1].arg.letter = "G"
  /\ calls[2].out[1].arg.value = RatToF(45, 10)

(***************************************************************************)
(* The top-level loop, one iteration per step.  The last record of calls   *)
(* is the call in progress: at is the cursor the next parse_next_pair is   *)
(* given, ended whether the while condition has failed, and trail the      *)
(* cursors of each iteration so far: <<the cursor passed to                *)
(* parse_next_pair, the cursor it returned, the cursor the body left>>.    *)
(***************************************************************************)
MaxLoopLines == 1

MaxIterations == 10

LoopLines == {
  <<>>,
  Join(<<<<"T","1">>, <<"G","1">>, <<"X","1">>, <<"M","1","0","4">>, <<"S","5">>>>),
  Join(<<<<"N","1","0">>, <<"G","9","2">>, <<"X","1">>, <<"Q">>>>),
  Join(<<<<"G","2","8">>, <<"X","0">>, <<"T","2">>, <<";">>, <<"G","1">>>>),
  <<" "," ","M","3"," "," ","S","1","0","0"," ","*","7","1">>,
  Join(<<<<"T","0">>, <<"G","1">>, <<"X">>>>),
  <<"G","0","X","1","Y","2","T","3","Z">> }

\* A call of gcodep_parse_line is in progress.
Running == calls # <<>> /\ ~calls[Len(calls)].ended

\* The caller passes a line to gcodep_parse_line: control stands before the
\* first evaluation of the while condition.
Begin ==
  \E line \in LoopLines, beyond \in BeyondBytes, cb \in CbReturns :
    /\ ~Running
    /\ Len(calls) < MaxLoopLines
    /\ calls' = Append(calls, [line |-> line, buf |-> line, out |-> <<>>,
                               pre |-> p, post |-> p, rd |-> FALSE, wr |-> FALSE,
                               beyond |-> beyond, cb |-> cb,
                               at |-> 1, ended |-> FALSE, trail |-> <<>>])
    /\ UNCHANGED p

\* while ((line = parse_next_pair(line, &letter, &value))) { ... }: the
\* condition evaluated once and, when it holds, the body run once.
Iterate ==
  /\ Running
  /\ Len(calls[Len(calls)].trail) < MaxIterations
  /\ LET c == calls[Len(calls)]
         x == [p |-> p, buf |-> c.buf, out |-> c.out, rd |-> c.rd, wr |-> c.wr,
               beyond |-> c.beyond, cb |-> c.cb, conv |-> "indefinite"]
     IN
     \E t \in {Pair(x, c.at)} :
       IF t.line = NULL
       THEN /\ calls' = [calls EXCEPT ![Len(calls)] =
                           [c EXCEPT !.buf = t.buf, !.rd = @ \/ t.rd,
                                     !.wr = @ \/ t.wr, !.ended = TRUE]]
            /\ UNCHANGED p
       ELSE \E r \in {dispatch(Absorb(x, t), t.letter, t.value, t.line)} :
              /\ p' = r.x.p
              /\ calls' = [calls EXCEPT ![Len(calls)] =
                             [c EXCEPT !.buf = r.x.buf, !.out = r.x.out,
                                       !.post = r.x.p,
                                       !.rd = r.x.rd, !.wr = r.x.wr,
                                       !.at = r.line,
                                       !.trail = Append(@, <<c.at, t.line, r.line>>)]]

NextLoop == Begin \/ Iterate

\* The loop is sequential code: as long as it has not ended it goes on.
SpecLoop == Init /\ [][NextLoop]_vars /\ WF_vars(Iterate)

\* C18: interpreting a line terminates.  Every word parse_next_pair returns
\* leaves the cursor at least one character further; every handler leaves
\* the cursor within the remainder it was given (NULL only from the
\* unprocessed callback, which here returns NULL or a suffix of the
\* remainder it received); what the loop did is what gcodep_parse_line
\* does; and every call in progress ends, the last parse_next_pair having
\* returned NULL.
C18_Terminates ==
  /\ [](\A i \in 1..Len(calls) :
          LET c == calls[i] IN
          /\ \A k \in 1..Len(c.trail) :
               LET from == c.trail[k][1]
                   word == c.trail[k][2]
                   next == c.trail[k][3]
               IN
               /\ from # NULL /\ word >= from + 1
               /\ word <= Len(c.buf) + 1
               /\ next = NULL \/ (next >= word /\ next <= Len(c.buf) + 1)
               /\ k < Len(c.trail) => c.trail[k + 1][1] = next
          /\ c.ended =>
               /\ Pair([buf |-> c.buf, beyond |-> c.beyond], c.at).line = NULL
               /\ LET r == gcodep_parse_line(c.pre, c.line, c.beyond, c.cb,
                                             "indefinite")
                  IN  Ops(c) = Ops(r) /\ c.out = r.out /\ c.post = r.p
                      /\ c.buf = r.buf)
  /\ (Running ~> ~Running)

\* C18's case: `T1 G1 X1 M104 S5`, the callback handing back the remainder
\* it was given, has ended after three iterations, each further along the
\* line: the unprocessed T1, the move and the temperature.
C18_Witness ==
  /\ Len(calls) = 1
  /\ calls[1].ended
  /\ calls[1].cb = "rest"
  /\ calls[1].line = Join(<<<<"T","1">>, <<"G","1">>, <<"X","1">>,
                            <<"M","1","0","4">>, <<"S","5">>>>)
  /\ calls[1].trail = <<<<1, 4, 4>>, <<4, 7, 10>>, <<10, 15, 17>>>>
  /\ [j \in 1..3 |-> calls[1].out[j].op] =
       <<"unprocessed", "coordinated_move", "set_temperature">>

====
